---- MODULE Spec2Model ----
(***************************************************************************)
(* Query resolution core of the Enterprise Production Assistant.           *)
(*                                                                         *)
(* Four state machines share this module:                                  *)
(*   SpecMemory     ConversationMemory of app/core/memory.py               *)
(*   Spec           MCPClient of app/services/client.py with its           *)
(*                  retriever, its web search tool and the /query handler  *)
(*                  of app/api/server.py                                   *)
(*   SpecMemClient  MemoryClient of app/core/memory.py around MCPClient    *)
(*   SpecApp        the /upload and /query endpoints of main.py            *)
(*                                                                         *)
(* Text is modelled as TLA+ strings with Python's string operations        *)
(* written out; scores and confidences are exact rationals <<n, d>>.       *)
(***************************************************************************)
EXTENDS Integers, Sequences, FiniteSets, TLC

(***************************************************************************)
(* Python string operations                                                *)
(***************************************************************************)

\* str.startswith at offset i (1-based): s[i-1:].startswith(sub)
StartsAt(s, sub, i) ==
    /\ i + Len(sub) - 1 <= Len(s)
    /\ SubSeq(s, i, i + Len(sub) - 1) = sub

\* Python's `sub in s`
Contains(s, sub) ==
    \E i \in 1..(Len(s) - Len(sub) + 1) : StartsAt(s, sub, i)

\* the first index >= i at which sub occurs in s, or 0
NextMatch(s, sub, i) ==
    LET at == {j \in i..(Len(s) - Len(sub) + 1) : StartsAt(s, sub, j)}
    IN  IF at = {} THEN 0 ELSE CHOOSE j \in at : \A k \in at : j <= k

\* Python's s.count(sub): non-overlapping occurrences scanned left to right
RECURSIVE CountFrom(_, _, _)
CountFrom(s, sub, i) ==
    LET j == NextMatch(s, sub, i)
    IN  IF j = 0 THEN 0 ELSE 1 + CountFrom(s, sub, j + Len(sub))

Count(s, sub) == CountFrom(s, sub, 1)

IsSpace(c) == c \in {" ", "\n", "\t"}

\* Python's s.split(): split on runs of whitespace, no empty words
Split(s) ==
    LET n == Len(s)
        starts == {i \in 1..n : /\ ~IsSpace(SubSeq(s, i, i))
                                /\ (i = 1 \/ IsSpace(SubSeq(s, i - 1, i - 1)))}
        ends == {i \in 1..n : /\ ~IsSpace(SubSeq(s, i, i))
                              /\ (i = n \/ IsSpace(SubSeq(s, i + 1, i + 1)))}
        kth(set, k) == CHOOSE i \in set : Cardinality({j \in set : j < i}) = k - 1
    IN  [k \in 1..Cardinality(starts) |-> SubSeq(s, kth(starts, k), kth(ends, k))]

\* Python's s.split(sep): every separator splits, empty pieces are kept
RECURSIVE SplitOnFrom(_, _, _)
SplitOnFrom(s, sep, i) ==
    LET j == NextMatch(s, sep, i)
    IN  IF j = 0 THEN <<SubSeq(s, i, Len(s))>>
        ELSE <<SubSeq(s, i, j - 1)>> \o SplitOnFrom(s, sep, j + Len(sep))

SplitOn(s, sep) == SplitOnFrom(s, sep, 1)

\* Python's s.replace(old, new)
RECURSIVE ReplaceFrom(_, _, _, _)
ReplaceFrom(s, old, new, i) ==
    LET j == NextMatch(s, old, i)
    IN  IF j = 0 THEN SubSeq(s, i, Len(s))
        ELSE SubSeq(s, i, j - 1) \o new \o ReplaceFrom(s, old, new, j + Len(old))

Replace(s, old, new) == ReplaceFrom(s, old, new, 1)

\* Python's sep.join(words)
RECURSIVE Join(_, _)
Join(sep, words) ==
    IF words = <<>> THEN ""
    ELSE IF Len(words) = 1 THEN words[1]
    ELSE words[1] \o sep \o Join(sep, Tail(words))

\* Python's s[:n]
Prefix(s, n) == SubSeq(s, 1, IF n < Len(s) THEN n ELSE Len(s))

\* Python's s.strip(chars) for a set of one-character strings
StripChars(s, chars) ==
    LET keep == {i \in 1..Len(s) : SubSeq(s, i, i) \notin chars}
    IN  IF keep = {} THEN ""
        ELSE SubSeq(s, CHOOSE i \in keep : \A k \in keep : i <= k,
                       CHOOSE i \in keep : \A k \in keep : k <= i)

Strip(s) == StripChars(s, {" ", "\n", "\t"})

UpperAlphabet == "ABCDEFGHIJKLMNOPQRSTUVWXYZ"

LowerAlphabet == "abcdefghijklmnopqrstuvwxyz"

LowerChar(c) ==
    IF \E i \in 1..Len(UpperAlphabet) : SubSeq(UpperAlphabet, i, i) = c
    THEN LET i == CHOOSE j \in 1..Len(UpperAlphabet) : SubSeq(UpperAlphabet, j, j) = c
         IN  SubSeq(LowerAlphabet, i, i)
    ELSE c

\* Python's s.lower(), halving the string at each step
RECURSIVE Lower(_)
Lower(s) ==
    IF Len(s) = 0 THEN ""
    ELSE IF Len(s) = 1 THEN LowerChar(s)
    ELSE LET half == Len(s) \div 2
         IN  Lower(SubSeq(s, 1, half)) \o Lower(SubSeq(s, half + 1, Len(s)))

\* set(words) of a list of words
SetOf(seq) == {seq[i] : i \in 1..Len(seq)}

(***************************************************************************)
(* Exact rationals <<n, d>>, d > 0, for scores, thresholds, confidences    *)
(***************************************************************************)
Q(n, d) == <<n, d>>

QLt(a, b) == a[1] * b[2] < b[1] * a[2]

QLe(a, b) == a[1] * b[2] <= b[1] * a[2]

QEq(a, b) == a[1] * b[2] = b[1] * a[2]

QAdd(a, b) == <<a[1] * b[2] + b[1] * a[2], a[2] * b[2]>>

QMul(a, b) == <<a[1] * b[1], a[2] * b[2]>>

QMin(a, b) == IF QLe(a, b) THEN a ELSE b

Zero == Q(0, 1)

One == Q(1, 1)

\* Python's seq[start:] for any integer start (negative counts from the end)
PySliceFrom(seq, start) ==
    LET n == Len(seq)
        lo == IF start < 0 THEN (IF n + start < 0 THEN 0 ELSE n + start)
              ELSE (IF start > n THEN n ELSE start)
    IN  SubSeq(seq, lo + 1, n)

(***************************************************************************)
(* Bounds of the model                                                     *)
(***************************************************************************)
\* max_turns is drawn from 0..MaxTurnsBound at construction
MaxTurnsBound == 2

\* ConversationMemory(max_turns): any int is taken as it is given
MaxTurnsChoices == {-1} \cup (0..MaxTurnsBound)

\* add_turn is not taken on a session that already stores this many turns
MaxStored == 3

\* the clock stops after this many ticks
MaxTicks == 2

(***************************************************************************)
(* Program constants                                                       *)
(***************************************************************************)
\* ConversationMemory.__init__(max_age_hours=24)
MaxAgeHours == 24

\* get_context(num_turns=2)
DefaultNumTurns == 2

\* turn.response[:150]
ContextAnswerChars == 150

\* one tick of the clock, in hours: two ticks exceed max_age
TickHours == (MaxAgeHours \div 2) + 1

SessionIds == {"default", "s1"}

VARIABLES
    conversations,   \* ConversationMemory.conversations: session id -> list of Turn
    max_turns,       \* ConversationMemory.max_turns
    now,             \* the wall clock read by datetime.now(), in ticks
    cleanup_ret,     \* what the last cleanup_old() returned
    client_documents,   \* MCPClient._documents, in insertion order
    threshold,          \* MCPClient.threshold
    retriever,          \* MCPClient.retriever is not None
    document_retriever, \* Retriever.document_retriever is not None
    web_search,         \* MCPClient.web_search is not None
    groq_key,           \* GROQ_API_KEY is set: both tools hold a Groq client
    result,             \* what the last call returned, or that it raised
    call,               \* the last call: its inputs and the lookups it made
    documents,            \* main.py documents, in insertion order
    conversation_history  \* main.py conversation_history: session id -> list

memvars == <<conversations, max_turns, now, cleanup_ret>>

clientvars == <<client_documents, threshold, retriever, document_retriever,
                web_search, groq_key, result, call>>

appvars == <<documents, conversation_history>>

vars == <<memvars, clientvars, appvars>>

(***************************************************************************)
(* ConversationMemory (app/core/memory.py)                                 *)
(***************************************************************************)
Turn(query, response, source, confidence, timestamp) ==
    [query |-> query, response |-> response, source |-> source,
     confidence |-> confidence, timestamp |-> timestamp]

\* the dict after  d[key] = value
DictSet(d, key, value) ==
    [k \in DOMAIN d \cup {key} |-> IF k = key THEN value ELSE d[k]]

\* the dict after  del d[key]  for every key of keys
DictDel(d, keys) == [k \in DOMAIN d \ keys |-> d[k]]

EmptyDict == [k \in {} |-> <<>>]

\* self.conversations[session_id][-self.max_turns:]
TrimTurns(turns, maxTurns) == PySliceFrom(turns, 0 - maxTurns)

\* the value of self.conversations after add_turn
add_turn(convs, maxTurns, session_id, query, response, source, confidence, clock) ==
    LET created == IF session_id \in DOMAIN convs THEN convs
                   ELSE DictSet(convs, session_id, <<>>)
        appended == Append(created[session_id],
                           Turn(query, response, source, confidence, clock))
    IN  IF Len(appended) > maxTurns
        THEN DictSet(created, session_id, TrimTurns(appended, maxTurns))
        ELSE DictSet(created, session_id, appended)

RECURSIVE ContextLines(_)
ContextLines(turns) ==
    IF turns = <<>> THEN <<>>
    ELSE << "Q: " \o Head(turns).query,
            "A: " \o Prefix(Head(turns).response, ContextAnswerChars) \o "..." >>
         \o ContextLines(Tail(turns))

get_context(convs, session_id, num_turns) ==
    IF session_id \notin DOMAIN convs THEN ""
    ELSE Join("\n", ContextLines(PySliceFrom(convs[session_id], 0 - num_turns)))

\* enhance_query handing the query back without the context
enhance_query_unchanged(convs, session_id, query) == query

enhance_query(convs, session_id, query) ==
    LET context == get_context(convs, session_id, DefaultNumTurns)
    IN  IF context # ""
        THEN "Previous conversation:\n" \o context \o "\n\nNew question: " \o query
        ELSE query

RECURSIVE SumConfidence(_)
SumConfidence(turns) ==
    IF turns = <<>> THEN Zero
    ELSE QAdd(Head(turns).confidence, SumConfidence(Tail(turns)))

SourceHistogram(turns) ==
    [src \in {turns[i].source : i \in 1..Len(turns)} |->
        Cardinality({i \in 1..Len(turns) : turns[i].source = src})]

\* get_stats; avg_confidence is sum / len as the pair <<sum, len>>, and the
\* division raises ZeroDivisionError on an empty list
get_stats(convs, session_id) ==
    IF session_id \notin DOMAIN convs THEN [exists |-> FALSE]
    ELSE LET turns == convs[session_id]
         IN  IF Len(turns) = 0 THEN [raised |-> "ZeroDivisionError"]
             ELSE [exists |-> TRUE,
                   turns |-> Len(turns),
                   avg_confidence |-> <<SumConfidence(turns), Len(turns)>>,
                   sources |-> SourceHistogram(turns),
                   duration_min |->
                       IF Len(turns) > 1
                       THEN (turns[Len(turns)].timestamp - turns[1].timestamp)
                            * TickHours * 60
                       ELSE 0]

\* cleanup_old judging a session by its first turn instead of its last
Expired_by_first_turn(convs, clock) ==
    {sid \in DOMAIN convs :
        /\ convs[sid] # <<>>
        /\ convs[sid][1].timestamp * TickHours < clock * TickHours - MaxAgeHours}

\* the session ids cleanup_old deletes at time clock
Expired(convs, clock) ==
    {sid \in DOMAIN convs :
        /\ convs[sid] # <<>>
        /\ convs[sid][Len(convs[sid])].timestamp * TickHours
              < clock * TickHours - MaxAgeHours}

\* the results an answered question leaves to be recorded
MemAnswers ==
    [q \in {"What is Python?", "How to use it?"} |->
        IF q = "What is Python?"
        THEN [response |-> "Python is a programming language",
              source |-> "astradb", confidence |-> Q(9, 10)]
        ELSE [response |-> "You can use Python for development",
              source |-> "web", confidence |-> Q(8, 10)]]

MemInit ==
    /\ conversations = EmptyDict
    /\ max_turns \in 0..MaxTurnsBound
    /\ now = 0
    /\ cleanup_ret = 0
    /\ client_documents = <<>>
    /\ threshold = Q(3, 10)
    /\ retriever = FALSE
    /\ document_retriever = FALSE
    /\ web_search = FALSE
    /\ groq_key = FALSE
    /\ result = [kind |-> "none"]
    /\ call = [op |-> "none"]
    /\ documents = <<>>
    /\ conversation_history = EmptyDict

\* what the client and the application hold; the memory never touches it
MemIdle == <<client_documents, threshold, retriever, document_retriever,
             web_search, groq_key, appvars>>

RECURSIVE SumLen(_, _)
SumLen(convs, sids) ==
    IF sids = {} THEN 0
    ELSE LET sid == CHOOSE x \in sids : TRUE
         IN  Len(convs[sid]) + SumLen(convs, sids \ {sid})

\* the turns held over all sessions
TotalTurns(convs) == SumLen(convs, DOMAIN convs)

AddTurn(session_id, query) ==
    /\ TotalTurns(conversations) < MaxStored
    /\ conversations' = add_turn(conversations, max_turns, session_id, query,
                                 MemAnswers[query].response, MemAnswers[query].source,
                                 MemAnswers[query].confidence, now)
    /\ call' = [op |-> "add_turn", session_id |-> session_id, query |-> query]
    /\ result' = [kind |-> "none"]
    /\ UNCHANGED <<max_turns, now, cleanup_ret, MemIdle>>

CleanupOld ==
    /\ conversations' = DictDel(conversations, Expired(conversations, now))
    /\ cleanup_ret' = Cardinality(Expired(conversations, now))
    /\ call' = [op |-> "cleanup_old"]
    /\ result' = [kind |-> "removed", count |-> cleanup_ret']
    /\ UNCHANGED <<max_turns, now, MemIdle>>

GetContext(session_id, num_turns) ==
    /\ call' = [op |-> "get_context", session_id |-> session_id,
                num_turns |-> num_turns]
    /\ result' = [kind |-> "context",
                  text |-> get_context(conversations, session_id, num_turns)]
    /\ UNCHANGED <<memvars, MemIdle>>

EnhanceQuery(session_id, query) ==
    /\ call' = [op |-> "enhance_query", session_id |-> session_id, query |-> query]
    /\ result' = [kind |-> "enhanced",
                  text |-> enhance_query(conversations, session_id, query)]
    /\ UNCHANGED <<memvars, MemIdle>>

GetStats(session_id) ==
    /\ call' = [op |-> "get_stats", session_id |-> session_id]
    /\ result' = [kind |-> "stats", stats |-> get_stats(conversations, session_id)]
    /\ UNCHANGED <<memvars, MemIdle>>

Tick ==
    /\ now < MaxTicks
    /\ now' = now + 1
    /\ UNCHANGED <<conversations, max_turns, cleanup_ret, clientvars, appvars>>

\* the num_turns a caller passes to get_context
NumTurnsInputs == 0..DefaultNumTurns

NextMemory ==
    \/ \E session_id \in SessionIds, query \in DOMAIN MemAnswers :
          AddTurn(session_id, query)
    \/ CleanupOld
    \/ \E session_id \in SessionIds, num_turns \in NumTurnsInputs :
          GetContext(session_id, num_turns)
    \/ \E session_id \in SessionIds, query \in DOMAIN MemAnswers :
          EnhanceQuery(session_id, query)
    \/ \E session_id \in SessionIds : GetStats(session_id)
    \/ Tick

SpecMemory == MemInit /\ [][NextMemory]_vars

\* the memory constructed with any max_turns the constructor takes: the int
\* is stored unchecked, a negative one included
MemAnyInit ==
    /\ conversations = EmptyDict
    /\ max_turns \in MaxTurnsChoices
    /\ now = 0
    /\ cleanup_ret = 0
    /\ client_documents = <<>>
    /\ threshold = Q(3, 10)
    /\ retriever = FALSE
    /\ document_retriever = FALSE
    /\ web_search = FALSE
    /\ groq_key = FALSE
    /\ result = [kind |-> "none"]
    /\ call = [op |-> "none"]
    /\ documents = <<>>
    /\ conversation_history = EmptyDict

SpecMemoryAny == MemAnyInit /\ [][NextMemory]_vars

(***************************************************************************)
(* The vector store behind the retriever                                   *)
(*   src/src/retriever/document_retriever.py                               *)
(*   src/src/services/retrieval/production_retriever.py                    *)
(* A request sees the store in one of the AstraWorlds: "down" (connecting  *)
(* and collection.find raise) or a collection of documents.                *)
(***************************************************************************)
AstraCollections ==
    [w \in {"kb"} |->
        << [id |-> "d1",
            content |-> "Retrieval augmented generation combines retrieval with generation"],
           [id |-> "d2", content |-> "RAG pipelines: rag needs a retriever"] >>]

AstraWorlds == {"down"} \cup DOMAIN AstraCollections

\* what the language model returns for a query expansion prompt
LlmExpansion == "semantic retrieval"

\* list.sort(key=score, reverse=True): stable, descending
RECURSIVE InsertDesc(_, _)
InsertDesc(sorted, x) ==
    IF sorted = <<>> THEN <<x>>
    ELSE IF QLt(Head(sorted).score, x.score) THEN <<x>> \o sorted
    ELSE <<Head(sorted)>> \o InsertDesc(Tail(sorted), x)

RECURSIVE SortDesc(_)
SortDesc(docs) ==
    IF docs = <<>> THEN <<>>
    ELSE InsertDesc(SortDesc(SubSeq(docs, 1, Len(docs) - 1)), docs[Len(docs)])

\* docs.sort(key=lambda x: x.score, reverse=True); docs[:top_k]
TopK(docs, top_k) ==
    SubSeq(SortDesc(docs), 1, IF top_k < Len(docs) THEN top_k ELSE Len(docs))

RetrievedDocument(doc, score) ==
    [content |-> doc.content, score |-> score, doc_id |-> doc.id]

\* the loop of search_by_content: score = content.count(query_lower)
ScoredByCount(all_docs, query_lower) ==
    LET matched == SelectSeq(all_docs,
                       LAMBDA doc : Contains(Lower(doc.content), query_lower))
    IN  [i \in 1..Len(matched) |->
            RetrievedDocument(matched[i],
                Q(Count(Lower(matched[i].content), query_lower), 1))]

\* DocumentRetriever.search_by_content; a failing find returns []
search_by_content(astra, query, top_k) ==
    IF astra = "down" THEN <<>>
    ELSE TopK(ScoredByCount(AstraCollections[astra], Lower(query)), top_k)

\* keywords = [word.strip().lower() for word in query.split() if len(word.strip()) > 3]
SearchKeywords(query) ==
    LET words == SelectSeq(Split(query), LAMBDA word : Len(Strip(word)) > 3)
    IN  [i \in 1..Len(words) |-> Lower(Strip(words[i]))]

KeywordHits(keywords, content_lower) ==
    Cardinality({i \in 1..Len(keywords) : Contains(content_lower, keywords[i])})

\* the loop of search_similar_content: score = hits / len(keywords)
ScoredByKeywords(all_docs, keywords) ==
    LET hits == SelectSeq(all_docs,
                    LAMBDA doc : KeywordHits(keywords, Lower(doc.content)) > 0)
    IN  [i \in 1..Len(hits) |->
            RetrievedDocument(hits[i],
                Q(KeywordHits(keywords, Lower(hits[i].content)), Len(keywords)))]

\* search_similar_content once the keywords are known: without keywords, and
\* when find raises, it answers with search_by_content
SimilarByKeywords(astra, query, top_k, keywords) ==
    IF keywords = <<>> \/ astra = "down"
    THEN search_by_content(astra, query, top_k)
    ELSE TopK(ScoredByKeywords(AstraCollections[astra], keywords), top_k)

\* DocumentRetriever.search_similar_content
search_similar_content(astra, query, top_k) ==
    SimilarByKeywords(astra, query, top_k, SearchKeywords(query))

\* EnhancedRetriever._expand_query: the query itself when the model call fails
expand_query(llm, query) ==
    IF llm = "down" THEN query ELSE query \o " " \o LlmExpansion

\* EnhancedRetriever.semantic_search
semantic_search(enable_groq, llm, astra, query, top_k) ==
    search_similar_content(astra,
        IF enable_groq THEN expand_query(llm, query) ELSE query, top_k)

\* the Document objects call_retriever builds, the score in their metadata
ToDocuments(retrieved_docs) ==
    [i \in 1..Len(retrieved_docs) |->
        [page_content |-> retrieved_docs[i].content,
         score |-> retrieved_docs[i].score,
         doc_id |-> retrieved_docs[i].doc_id]]

\* Retriever.call_retriever: load_retriever connects on first use and lets a
\* connection failure propagate
call_retriever(loaded, enable_groq, llm, astra, query, top_k) ==
    IF ~loaded /\ astra = "down"
    THEN [raised |-> TRUE, error |-> "Failed to connect to AstraDB",
          loaded |-> FALSE, documents |-> <<>>]
    ELSE [raised |-> FALSE, error |-> "", loaded |-> TRUE,
          documents |-> ToDocuments(semantic_search(enable_groq, llm, astra, query, top_k))]

(***************************************************************************)
(* The web search tool (src/src/app/services/web_search.py)                *)
(* A request sees the web in one of the WebWorlds:                         *)
(*   "down"      every HTTP request raises                                 *)
(*   "empty"     DuckDuckGo has no abstract and no topics, Wikipedia 404   *)
(*   "abstract"  DuckDuckGo answers every query with an abstract and a     *)
(*               related topic, Wikipedia 404                              *)
(*   "wiki"      DuckDuckGo is empty, Wikipedia has an extract             *)
(* and the language model in one of the LlmWorlds: "down" (the call        *)
(* raises), "answer", "noinfo" (it says it found nothing), "blank".        *)
(***************************************************************************)
WebWorlds == {"down", "empty", "abstract", "wiki"}

LlmWorlds == {"down", "answer", "noinfo", "blank"}

\* requests.get("https://api.duckduckgo.com/", ...).json()
DdgResponse(web, search_query) ==
    IF web = "down" THEN [raised |-> TRUE, Abstract |-> "", Heading |-> "", RelatedTopics |-> <<>>]
    ELSE IF web = "abstract"
    THEN [raised |-> FALSE,
          Abstract |-> "RAG pairs a retriever with a generator.",
          Heading |-> "Retrieval-augmented generation",
          RelatedTopics |-> << "Latest RAG surveys", "History of search" >>]
    ELSE [raised |-> FALSE, Abstract |-> "", Heading |-> "", RelatedTopics |-> <<>>]

\* requests.get("https://en.wikipedia.org/api/rest_v1/page/summary/...")
WikiResponse(web, query) ==
    IF web = "down" THEN [raised |-> TRUE, status_code |-> 0, extract |-> ""]
    ELSE IF web = "wiki"
    THEN [raised |-> FALSE, status_code |-> 200,
          extract |-> "Retrieval-augmented generation is a technique."]
    ELSE [raised |-> FALSE, status_code |-> 404, extract |-> ""]

\* response.choices[0].message.content of a summarization call
LlmReply(llm) ==
    IF llm = "answer" THEN "RAG combines retrieval with generation."
    ELSE IF llm = "noinfo" THEN "No relevant information was found in the results."
    ELSE "  "

WebSearchResult(title, snippet) == [title |-> title, snippet |-> snippet]

RecentTerms == <<"2024", "2025", "current", "latest", "recent", "now">>

NewsTerms == <<"president", "minister", "election", "current", "latest", "2024", "2025">>

AnyTermIn(terms, text_lower) == \E i \in 1..Len(terms) : Contains(text_lower, terms[i])

\* the results one DuckDuckGo response adds (lines 56-74)
DdgResults(query, data) ==
    LET recent(text) == AnyTermIn(RecentTerms, Lower(text))
        topics == SelectSeq(data.RelatedTopics, recent)
    IN  (IF data.Abstract # ""
         THEN << WebSearchResult(IF data.Heading # "" THEN data.Heading ELSE query,
                                 data.Abstract) >>
         ELSE << >>)
        \o [i \in 1..Len(topics) |->
               WebSearchResult(Prefix(topics[i], 60) \o "...", topics[i])]

\* the loop over search_queries (lines 50-81)
RECURSIVE DdgLoop(_, _, _, _)
DdgLoop(web, query, search_queries, all_results) ==
    IF search_queries = <<>> THEN all_results
    ELSE IF DdgResponse(web, Head(search_queries)).raised
    THEN DdgLoop(web, query, Tail(search_queries), all_results)
    ELSE IF Len(all_results)
            + Len(DdgResults(query, DdgResponse(web, Head(search_queries)))) >= 2
    THEN all_results \o DdgResults(query, DdgResponse(web, Head(search_queries)))
    ELSE DdgLoop(web, query, Tail(search_queries),
             all_results \o DdgResults(query, DdgResponse(web, Head(search_queries))))

\* the news search tried when the loop found nothing (lines 84-97)
NewsResults(query, news_data) ==
    IF ~news_data.raised /\ news_data.Abstract # ""
    THEN << WebSearchResult("Recent: " \o query, news_data.Abstract) >>
    ELSE << >>

\* return all_results[:3] or [WebSearchResult(...)]  (lines 99-102)
FirstThreeOrPlaceholder(query, all_results) ==
    IF all_results # <<>>
    THEN SubSeq(all_results, 1, IF Len(all_results) > 3 THEN 3 ELSE Len(all_results))
    ELSE << WebSearchResult("About " \o query,
              "Current information about " \o query
              \o ". Please note: Search results may have limited real-time data.") >>

WithNewsSearch(web, query, found) ==
    IF found # <<>> THEN found
    ELSE NewsResults(query, DdgResponse(web, "news " \o query))

\* WebSearchTool.search_duckduckgo
search_duckduckgo(web, query) ==
    FirstThreeOrPlaceholder(query,
        WithNewsSearch(web, query,
            DdgLoop(web, query,
                    << query \o " 2024 2025 latest current",
                       query \o " recent news today",
                       query >>,
                    <<>>)))

WikiResults(query, wiki) ==
    IF ~wiki.raised /\ wiki.status_code = 200 /\ wiki.extract # ""
    THEN << WebSearchResult(query, Prefix(wiki.extract, 200)) >>
    ELSE << >>

LatestNewsResults(query, data) ==
    IF AnyTermIn(NewsTerms, Lower(query)) /\ ~data.raised /\ data.Abstract # ""
    THEN << WebSearchResult("Latest: " \o query, data.Abstract) >>
    ELSE << >>

\* WebSearchTool.search_alternative_apis
search_alternative_apis(web, query) ==
    WikiResults(query, WikiResponse(web, query))
    \o LatestNewsResults(query, DdgResponse(web, "current " \o query \o " 2024 latest news"))

\* the deduplication by snippet of search_and_summarize
RECURSIVE UniqueBySnippet(_, _)
UniqueBySnippet(results, seen_snippets) ==
    IF results = <<>> THEN <<>>
    ELSE IF Head(results).snippet \in seen_snippets
    THEN UniqueBySnippet(Tail(results), seen_snippets)
    ELSE <<Head(results)>>
         \o UniqueBySnippet(Tail(results), seen_snippets \cup {Head(results).snippet})

\* results[:n]
FirstN(results, n) == SubSeq(results, 1, IF Len(results) > n THEN n ELSE Len(results))

\* " ".join([r.snippet for r in results[:2]])[:200]
JoinedSnippets(results) ==
    Prefix(Join(" ", [i \in 1..Len(FirstN(results, 2)) |-> results[i].snippet]), 200)

\* WebSearchTool.summarize_with_groq
summarize_with_groq(groq, llm, query, results) ==
    IF ~groq \/ llm = "down" THEN JoinedSnippets(results)
    ELSE Strip(LlmReply(llm))

\* if not results or len(results) < 2: results.extend(alt_results)
WithAlternatives(web, query, results) ==
    IF results = <<>> \/ Len(results) < 2
    THEN results \o search_alternative_apis(web, query)
    ELSE results

\* WebSearchTool.search_and_summarize
search_and_summarize(groq, llm, web, query) ==
    summarize_with_groq(groq, llm, query,
        FirstN(UniqueBySnippet(
                   WithAlternatives(web, query, search_duckduckgo(web, query)), {}),
               3))

\* whether the search found any snippet, abstract or extract for the question
WebFoundSomething(web, query) ==
    \/ \E i \in 1..4 :
          LET data == DdgResponse(web, <<query \o " 2024 2025 latest current",
                                         query \o " recent news today", query,
                                         "news " \o query>>[i])
          IN  ~data.raised /\ (data.Abstract # "" \/ data.RelatedTopics # <<>>)
    \/ LET wiki == WikiResponse(web, query)
       IN  ~wiki.raised /\ wiki.status_code = 200 /\ wiki.extract # ""

(***************************************************************************)
(* MCPClient (app/services/client.py)                                      *)
(***************************************************************************)
\* the PDF files a caller uploads: the text of each page as pypdf extracts
\* it, or no pages for a file PdfReader rejects
PdfPages ==
    [pdf \in {"rag.pdf", "notes.pdf", "broken.pdf"} |->
        IF pdf = "rag.pdf"
        THEN << "Retrieval augmented generation is a technique. It combines retrieval with generation." >>
        ELSE IF pdf = "notes.pdf"
        THEN << "What is RAG? rag is", "retrieval" >>
        ELSE << >>]

PdfReadable(pdf) == pdf # "broken.pdf"

\* hashlib.md5(content).hexdigest()[:12]: one id per file content
DocId(pdf) == "md5-" \o pdf

\* _chunk_text(text, chunk_size=500)
ChunkSize == 500

RECURSIVE ChunkLoop(_, _, _)
ChunkLoop(sentences, current_chunk, chunk_size) ==
    IF sentences = <<>>
    THEN (IF current_chunk # "" THEN <<Strip(current_chunk)>> ELSE <<>>)
    ELSE LET sentence == Head(sentences)
         IN  IF Len(current_chunk \o sentence) < chunk_size
             THEN ChunkLoop(Tail(sentences), current_chunk \o sentence \o ". ", chunk_size)
             ELSE (IF current_chunk # "" THEN <<Strip(current_chunk)>> ELSE <<>>)
                  \o ChunkLoop(Tail(sentences), sentence \o ". ", chunk_size)

chunk_text(text, chunk_size) == ChunkLoop(SplitOn(text, ". "), "", chunk_size)

PageNumbers == <<"1", "2", "3">>

\* full_text += f"\n--- Page {i+1} ---\n{page_text}\n"
RECURSIVE FullText(_, _)
FullText(pages, i) ==
    IF i > Len(pages) THEN ""
    ELSE "\n--- Page " \o PageNumbers[i] \o " ---\n" \o pages[i] \o "\n"
         \o FullText(pages, i + 1)

\* _store_document_info: self._documents[doc_id] = {...}; a dict keeps the
\* position of a key it already holds
store_document_info(docs, doc_id, filename, chunks) ==
    LET entry == [doc_id |-> doc_id, filename |-> filename, chunks |-> chunks]
    IN  IF \E i \in 1..Len(docs) : docs[i].doc_id = doc_id
        THEN [i \in 1..Len(docs) |-> IF docs[i].doc_id = doc_id THEN entry ELSE docs[i]]
        ELSE Append(docs, entry)

\* the (doc, chunk) pairs in the order the two loops of
\* _search_uploaded_documents visit them
RECURSIVE AllChunks(_)
AllChunks(docs) ==
    IF docs = <<>> THEN <<>>
    ELSE [i \in 1..Len(Head(docs).chunks) |->
             [doc_id |-> Head(docs).doc_id, filename |-> Head(docs).filename,
              chunk_index |-> i - 1, chunk |-> Head(docs).chunks[i]]]
         \o AllChunks(Tail(docs))

\* score = overlap / len(question_words) if question_words else 0
OverlapScore(question_words, chunk) ==
    IF question_words = {} THEN Zero
    ELSE Q(Cardinality(question_words \cap SetOf(Split(Lower(chunk)))),
           Cardinality(question_words))

\* the floor a chunk's score must exceed: score > 0.1
DocumentFloor == Q(1, 10)

\* the loop body of _search_uploaded_documents over the remaining chunks
RECURSIVE BestChunk(_, _, _, _)
BestChunk(question_words, chunks, best_match, best_score) ==
    IF chunks = <<>> THEN best_match
    ELSE LET c == Head(chunks)
             score == OverlapScore(question_words, c.chunk)
         IN  IF QLt(best_score, score) /\ QLt(DocumentFloor, score)
             THEN BestChunk(question_words, Tail(chunks),
                      [found |-> TRUE, answer |-> c.chunk,
                       confidence |-> QMin(QMul(score, Q(2, 1)), Q(95, 100)),
                       doc_id |-> c.doc_id, filename |-> c.filename,
                       chunk_index |-> c.chunk_index],
                      score)
             ELSE BestChunk(question_words, Tail(chunks), best_match, best_score)

NoMatch ==
    [found |-> FALSE, answer |-> "", confidence |-> Zero, doc_id |-> "",
     filename |-> "", chunk_index |-> 0]

\* MCPClient._search_uploaded_documents
search_uploaded_documents(docs, question) ==
    IF docs = <<>> THEN NoMatch
    ELSE BestChunk(SetOf(Split(Lower(question))), AllChunks(docs), NoMatch, Zero)

Questions ==
    {"What is retrieval augmented generation?", "rag", "asdkjasdlkj nonsense query"}

\* the thresholds a /query request body carries; 0 stands for a request
\* without one, which the handler replaces by its default
RequestThresholds == {Q(0, 1), Q(1, 2)}

\* MCPClient.__init__(relevance_threshold=0.3)
DefaultThreshold == Q(3, 10)

\* threshold = request.threshold or 0.7
ServerDefaultThreshold == Q(7, 10)

\* the confidence of an accepted web answer
WebConfidence == Q(8, 10)

NoInformationMarker == "No relevant information"

NoMetadata ==
    [document_id |-> "", filename |-> "", total_matches |-> 0, search_method |-> ""]

\* the result dict query starts from (lines 60-67); processing_time, a
\* duration, is left out
InitialResult(question) ==
    [kind |-> "returned", question |-> question, answer |-> "", source |-> "none",
     confidence |-> Zero, success |-> FALSE, metadata |-> NoMetadata]

\* result.update({...}) of an accepting tier
Accepted(question, answer, source, confidence, metadata) ==
    [kind |-> "returned", question |-> question, answer |-> answer, source |-> source,
     confidence |-> confidence, success |-> TRUE, metadata |-> metadata]

\* the comparison written as  score > self.threshold
MeetsThreshold_strict(score, thr) == QLt(thr, score)

\* score >= self.threshold
MeetsThreshold(score, thr) == QLe(thr, score)

\* web_answer and "No relevant information" not in web_answer
WebAccepts(web_answer) ==
    web_answer # "" /\ ~Contains(web_answer, NoInformationMarker)

\* asyncio.get_event_loop() raises RuntimeError on a thread that has no
\* event loop, which is every executor worker thread
HasEventLoop(thread) == thread = "loop"

\* every value MCPClient._documents takes: the readable files in any order
\* of first upload
StoredDoc(pdf) ==
    [doc_id |-> DocId(pdf), filename |-> pdf,
     chunks |-> chunk_text(FullText(PdfPages[pdf], 1), ChunkSize)]

ReadablePdfs == {pdf \in DOMAIN PdfPages : PdfReadable(pdf)}

DocStores ==
    {<<>>} \cup {<<StoredDoc(a)>> : a \in ReadablePdfs}
           \cup {<<StoredDoc(a), StoredDoc(b)>> :
                    <<a, b>> \in {p \in ReadablePdfs \X ReadablePdfs : p[1] # p[2]}}

\* the three lookups of the questions of Questions, computed once
UploadedAnswers ==
    [docs \in DocStores, question \in Questions |->
        search_uploaded_documents(docs, question)]

RetrieverAnswers ==
    [loaded \in BOOLEAN, enable_groq \in BOOLEAN, llm \in LlmWorlds,
     astra \in AstraWorlds, question \in Questions |->
        call_retriever(loaded, enable_groq, llm, astra, question, 3)]

WebAnswers ==
    [groq \in BOOLEAN, llm \in LlmWorlds, web \in WebWorlds, question \in Questions |->
        search_and_summarize(groq, llm, web, question)]

UploadedAnswer(docs, question) ==
    IF <<docs, question>> \in DOMAIN UploadedAnswers
    THEN UploadedAnswers[docs, question]
    ELSE search_uploaded_documents(docs, question)

RetrieverAnswer(loaded, enable_groq, llm, astra, question) ==
    IF question \in Questions
    THEN RetrieverAnswers[loaded, enable_groq, llm, astra, question]
    ELSE call_retriever(loaded, enable_groq, llm, astra, question, 3)

WebAnswer(groq, llm, web, question) ==
    IF question \in Questions
    THEN WebAnswers[groq, llm, web, question]
    ELSE search_and_summarize(groq, llm, web, question)

NothingFound ==
    "I couldn't find relevant information. Try uploading a document or rephrasing your question."

\* what a request has done so far: its result, what it looked up, whether it
\* has reached a return or the except clause, and whether it raised
Started(question, thr) ==
    [result |-> InitialResult(question),
     obs |-> [question |-> question, threshold |-> thr,
              tiers |-> <<>>, doc_found |-> FALSE, vector_raised |-> FALSE,
              astra_down |-> FALSE, was_loaded |-> document_retriever,
              loaded |-> document_retriever, scores |-> <<>>,
              web_found |-> FALSE, web_answer |-> ""],
     done |-> FALSE]

\* start_time = asyncio.get_event_loop().time() ..., before the try block
StartTime(thread, st) ==
    IF HasEventLoop(thread) THEN st
    ELSE [st EXCEPT !.done = TRUE,
                    !.result = [kind |-> "raised",
                                error |-> "RuntimeError: There is no current event loop in thread"]]

\* Step 1 once _search_uploaded_documents has answered
DocumentDecide(st, document_answer) ==
    IF document_answer.found
    THEN [st EXCEPT !.done = TRUE,
                    !.obs.tiers = Append(@, "documents"),
                    !.obs.doc_found = TRUE,
                    !.result = Accepted(st.obs.question, document_answer.answer,
                                   "uploaded_document", document_answer.confidence,
                                   [NoMetadata EXCEPT
                                       !.document_id = document_answer.doc_id,
                                       !.filename = document_answer.filename])]
    ELSE [st EXCEPT !.obs.tiers = Append(@, "documents")]

\* a query that goes to the vector store without looking at the uploads
DocumentStep_skipped(st) == st

\* Step 1: search uploaded documents first (lines 70-86)
DocumentStep(st) ==
    IF st.done \/ client_documents = <<>> THEN st
    ELSE DocumentDecide(st, UploadedAnswer(client_documents, st.obs.question))

\* Step 2 once call_retriever has answered or raised
VectorDecide(st, astra, got) ==
    IF got.raised
    THEN [st EXCEPT !.done = TRUE,
                    !.obs.tiers = Append(@, "vector"),
                    !.obs.vector_raised = TRUE,
                    !.obs.astra_down = (astra = "down"),
                    !.result.answer = "Processing error occurred: " \o got.error]
    ELSE IF got.documents # <<>>
            /\ MeetsThreshold(got.documents[1].score, st.obs.threshold)
    THEN [st EXCEPT !.done = TRUE,
                    !.obs.tiers = Append(@, "vector"),
                    !.obs.astra_down = (astra = "down"),
                    !.obs.loaded = got.loaded,
                    !.obs.scores = [i \in 1..Len(got.documents) |-> got.documents[i].score],
                    !.result = Accepted(st.obs.question, got.documents[1].page_content,
                                   "astradb", got.documents[1].score,
                                   [NoMetadata EXCEPT
                                       !.total_matches = Len(got.documents),
                                       !.document_id = got.documents[1].doc_id])]
    ELSE [st EXCEPT !.obs.tiers = Append(@, "vector"),
                    !.obs.astra_down = (astra = "down"),
                    !.obs.loaded = got.loaded,
                    !.obs.scores = [i \in 1..Len(got.documents) |-> got.documents[i].score]]

\* Step 2: semantic search in AstraDB (lines 88-115)
VectorStep(st, astra, llm) ==
    IF st.done \/ ~retriever THEN st
    ELSE VectorDecide(st, astra,
             RetrieverAnswer(document_retriever, groq_key, llm, astra, st.obs.question))

\* Step 3 asking search_and_summarize a second time after an answer it
\* did not accept
WebDecide_retried(st, web_found, web_answer) ==
    IF WebAccepts(web_answer)
    THEN [st EXCEPT !.done = TRUE,
                    !.obs.tiers = Append(@, "web"),
                    !.obs.web_found = web_found,
                    !.obs.web_answer = web_answer,
                    !.result = Accepted(st.obs.question, web_answer, "web_search",
                                   WebConfidence,
                                   [NoMetadata EXCEPT !.search_method = "duckduckgo"])]
    ELSE [st EXCEPT !.obs.tiers = @ \o <<"web", "web">>,
                    !.obs.web_found = web_found,
                    !.obs.web_answer = web_answer]

\* Step 3 once search_and_summarize has answered
WebDecide(st, web_found, web_answer) ==
    IF WebAccepts(web_answer)
    THEN [st EXCEPT !.done = TRUE,
                    !.obs.tiers = Append(@, "web"),
                    !.obs.web_found = web_found,
                    !.obs.web_answer = web_answer,
                    !.result = Accepted(st.obs.question, web_answer, "web_search",
                                   WebConfidence,
                                   [NoMetadata EXCEPT !.search_method = "duckduckgo"])]
    ELSE [st EXCEPT !.obs.tiers = Append(@, "web"),
                    !.obs.web_found = web_found,
                    !.obs.web_answer = web_answer]

\* Step 3: fallback to web search (lines 117-135)
WebStep(st, web, llm) ==
    IF st.done \/ ~web_search THEN st
    ELSE WebDecide(st, WebFoundSomething(web, st.obs.question),
                   WebAnswer(groq_key, llm, web, st.obs.question))

\* Step 4: no answer found (lines 137-139); success, source and confidence
\* stay as they were initialised
FallbackStep(st) ==
    IF st.done THEN st
    ELSE [st EXCEPT !.done = TRUE, !.result.answer = NothingFound]

\* MCPClient.query(question) with self.threshold = thr, called on `thread`
\* while the outside world is (astra, web, llm): what it returns or raises,
\* what it looked up, and whether the retriever is connected afterwards
query(question, thr, thread, astra, web, llm) ==
    FallbackStep(
      WebStep(
        VectorStep(
          DocumentStep(
            StartTime(thread, Started(question, thr))),
          astra, llm),
        web, llm))

\* the world a request meets; the language model is only reached when a
\* Groq client was built
Worlds ==
    {w \in [astra : AstraWorlds, web : WebWorlds, llm : LlmWorlds] :
        ~groq_key => w.llm = "down"}

ClientInit ==
    /\ client_documents = <<>>
    /\ threshold = DefaultThreshold
    /\ retriever \in BOOLEAN
    /\ document_retriever = FALSE
    /\ web_search \in BOOLEAN
    /\ groq_key \in BOOLEAN
    /\ result = [kind |-> "none"]
    /\ call = [op |-> "none"]

Init ==
    /\ ClientInit
    /\ conversations = EmptyDict
    /\ max_turns = 0
    /\ now = 0
    /\ cleanup_ret = 0
    /\ documents = <<>>
    /\ conversation_history = EmptyDict

\* MCPClient.process_document(content, filename)
ProcessDocument(pdf) ==
    /\ IF PdfReadable(pdf)
       THEN /\ client_documents' =
                   store_document_info(client_documents, DocId(pdf), pdf,
                       chunk_text(FullText(PdfPages[pdf], 1), ChunkSize))
            /\ result' = [kind |-> "processed", success |-> TRUE, document_id |-> DocId(pdf)]
       ELSE /\ client_documents' = client_documents
            /\ result' = [kind |-> "processed", success |-> FALSE, document_id |-> ""]
    /\ call' = [op |-> "process_document"]
    /\ UNCHANGED <<threshold, retriever, document_retriever, web_search, groq_key, memvars, appvars>>

\* the effect of one MCPClient.query on the client
Finish(op, out) ==
    /\ result' = out.result
    /\ call' = [op |-> op, obs |-> out.obs]
    /\ document_retriever' = out.obs.loaded

DoQuery(op, question, thr, thread, w) ==
    Finish(op, query(question, thr, thread, w.astra, w.web, w.llm))

\* MCPClient.query called directly on a thread that runs an event loop
Query(question, w) ==
    /\ DoQuery("query", question, threshold, "loop", w)
    /\ UNCHANGED <<client_documents, threshold, retriever, web_search, groq_key, memvars, appvars>>

\* MCPClient.async_query: query runs on an executor worker thread
AsyncQuery(question) ==
    /\ \E w \in Worlds : DoQuery("async_query", question, threshold, "worker", w)
    /\ UNCHANGED <<client_documents, threshold, retriever, web_search, groq_key, memvars, appvars>>

\* POST /query of app/api/server.py with a JSON body
ServerQuery(question, request_threshold, w) ==
    LET thr == IF request_threshold[1] # 0 THEN request_threshold
               ELSE ServerDefaultThreshold
    IN  /\ threshold' = thr
        /\ DoQuery("server_query", question, thr, "loop", w)
        /\ UNCHANGED <<client_documents, retriever, web_search, groq_key, memvars, appvars>>

Next ==
    \/ \E pdf \in DOMAIN PdfPages : ProcessDocument(pdf)
    \/ \E question \in Questions, w \in Worlds : Query(question, w)
    \/ \E question \in Questions : AsyncQuery(question)
    \/ \E question \in Questions, t \in RequestThresholds, w \in Worlds :
          ServerQuery(question, t, w)

Spec == Init /\ [][Next]_vars

(***************************************************************************)
(* The routes of src/app/api/server.py that answer questions: POST /query  *)
(* (lines 111-134), POST /batch-query (lines 164-180) and the query        *)
(* message of the WebSocket /ws (lines 182-200).  All of them share        *)
(* self.client.                                                            *)
(***************************************************************************)
\* the threshold of a request body or message: absent, 0 or a number
ApiThresholds ==
    {[present |-> FALSE, value |-> Zero],
     [present |-> TRUE, value |-> Zero],
     [present |-> TRUE, value |-> Q(9, 10)]}

\* threshold: Optional[float] = 0.7 of the request models, and
\* message.get("threshold", 0.7)
FieldThreshold(t) == IF t.present THEN t.value ELSE ServerDefaultThreshold

\* Python's truth value of a float
Truthy(x) == x[1] # 0

\* self.client.threshold once the route has read the request, left being
\* its value before
RouteThreshold(route, t, left) ==
    CASE route = "post_query" ->
            IF Truthy(FieldThreshold(t)) THEN FieldThreshold(t)
            ELSE ServerDefaultThreshold
      [] route = "post_batch_query" ->
            IF Truthy(FieldThreshold(t)) THEN FieldThreshold(t) ELSE left
      [] route = "ws_query" -> FieldThreshold(t)

\* batches of at most one question are sent
BatchQuestions == {<<>>} \cup {<<question>> : question \in Questions}

\* the route has set the threshold to thr and the client has answered the
\* questions, one result each
RouteFinish(route, t, thr, outs) ==
    /\ threshold' = thr
    /\ result' = [kind |-> "returned",
                  results |-> [i \in 1..Len(outs) |-> outs[i].result]]
    /\ call' = [op |-> route, request_threshold |-> t,
                evaluated |-> [i \in 1..Len(outs) |-> outs[i].obs.threshold],
                sources |-> [i \in 1..Len(outs) |-> outs[i].result.source]]
    /\ document_retriever' = IF outs = <<>> THEN document_retriever
                             ELSE outs[Len(outs)].obs.loaded
    /\ UNCHANGED <<client_documents, retriever, web_search, groq_key, memvars,
                   appvars>>

\* [self.query(q) for q in questions]
batch_query(questions, thr, w) ==
    IF questions = <<>> THEN <<>>
    ELSE <<query(questions[1], thr, "loop", w.astra, w.web, w.llm)>>

PostQuery(question, t, w) ==
    RouteFinish("post_query", t, RouteThreshold("post_query", t, threshold),
                batch_query(<<question>>,
                            RouteThreshold("post_query", t, threshold), w))

PostBatchQuery(questions, t, w) ==
    RouteFinish("post_batch_query", t,
                RouteThreshold("post_batch_query", t, threshold),
                batch_query(questions,
                            RouteThreshold("post_batch_query", t, threshold), w))

WsQuery(question, t, w) ==
    RouteFinish("ws_query", t, RouteThreshold("ws_query", t, threshold),
                batch_query(<<question>>,
                            RouteThreshold("ws_query", t, threshold), w))

NextServer ==
    \/ \E question \in Questions, t \in ApiThresholds, w \in Worlds :
          PostQuery(question, t, w)
    \/ \E questions \in BatchQuestions, t \in ApiThresholds, w \in Worlds :
          PostBatchQuery(questions, t, w)
    \/ \E question \in Questions, t \in ApiThresholds, w \in Worlds :
          WsQuery(question, t, w)

SpecServer == Init /\ [][NextServer]_vars

(***************************************************************************)
(* MCPClient.health_check, between the queries of a client.                *)
(***************************************************************************)
UpperChar(c) ==
    IF \E i \in 1..Len(LowerAlphabet) : SubSeq(LowerAlphabet, i, i) = c
    THEN LET i == CHOOSE j \in 1..Len(LowerAlphabet) : SubSeq(LowerAlphabet, j, j) = c
         IN  SubSeq(UpperAlphabet, i, i)
    ELSE c

\* Python's s.upper()
RECURSIVE Upper(_)
Upper(s) ==
    IF Len(s) = 0 THEN ""
    ELSE UpperChar(SubSeq(s, 1, 1)) \o Upper(SubSeq(s, 2, Len(s)))

\* MCPClient.__init__(provider="groq")
Provider == "groq"

\* the text of the two component entries, without its tick or cross mark
Operational(component) == IF component THEN "operational" ELSE "unavailable"

\* a report whose overall status is degraded as soon as one of the two is
\* unavailable
health_check_either(has_retriever, has_web_search, provider) ==
    [status |-> IF ~(has_retriever /\ has_web_search) THEN "degraded"
                ELSE "healthy",
     retriever |-> Operational(has_retriever),
     web_search |-> Operational(has_web_search),
     provider |-> Upper(provider)]

\* the dict of health_check: status starts as healthy and is overwritten
\* when neither self.retriever nor self.web_search is set
health_check(has_retriever, has_web_search, provider) ==
    [status |-> IF ~(has_retriever \/ has_web_search) THEN "degraded"
                ELSE "healthy",
     retriever |-> Operational(has_retriever),
     web_search |-> Operational(has_web_search),
     provider |-> Upper(provider)]

HealthCheck ==
    /\ call' = [op |-> "health_check"]
    /\ result' = [kind |-> "returned"]
                 @@ health_check(retriever, web_search, Provider)
    /\ UNCHANGED <<client_documents, threshold, retriever, document_retriever,
                   web_search, groq_key, memvars, appvars>>

NextHealth ==
    \/ \E pdf \in DOMAIN PdfPages : ProcessDocument(pdf)
    \/ \E question \in Questions, w \in Worlds : Query(question, w)
    \/ HealthCheck

SpecHealth == Init /\ [][NextHealth]_vars

(***************************************************************************)
(* MemoryClient (src/app/core/memory.py, lines 92-110): an MCPClient        *)
(* wrapped with a ConversationMemory.  SpecMemClient runs its query method  *)
(* against the client above; each request arrives at the next clock tick.   *)
(***************************************************************************)

MemSessionIds == {"default", "s1"}

MemQuestions == {"rag", "asdkjasdlkj nonsense query"}

\* enhanced_query = self.memory.enhance_query(session_id, query) if use_context else query
EnhancedQuery(session_id, question, use_context) ==
    IF use_context THEN enhance_query(conversations, session_id, question)
    ELSE question

\* result['memory'] = self.memory.get_stats(session_id)
WithMemory(res, convs, session_id) ==
    [memory |-> get_stats(convs, session_id)] @@ res

\* the rest of MemoryClient.query once the wrapped client has answered:
\* add_turn is called with whatever the client returned
MemoryRecord(session_id, question, out) ==
    /\ conversations' = add_turn(conversations, max_turns, session_id, question,
                                 out.result.answer, out.result.source,
                                 out.result.confidence, now)
    /\ result' = WithMemory(out.result,
                            add_turn(conversations, max_turns, session_id, question,
                                     out.result.answer, out.result.source,
                                     out.result.confidence, now),
                            session_id)
    /\ call' = [op |-> "memory_query", session_id |-> session_id,
                query |-> question, before |-> conversations, obs |-> out.obs]
    /\ document_retriever' = out.obs.loaded

\* MemoryClient.query(session_id, query, use_context)
MemoryQuery(session_id, question, use_context, w) ==
    /\ now < MaxTicks
    /\ now' = now + 1
    /\ MemoryRecord(session_id, question,
                    query(EnhancedQuery(session_id, question, use_context),
                          threshold, "loop", w.astra, w.web, w.llm))
    /\ UNCHANGED <<max_turns, cleanup_ret, client_documents, threshold,
                   retriever, web_search, groq_key, appvars>>

\* MemoryClient(mcp_client, max_turns)
MemClientInit ==
    /\ ClientInit
    /\ conversations = EmptyDict
    /\ max_turns \in 1..MaxTurnsBound
    /\ now = 0
    /\ cleanup_ret = 0
    /\ documents = <<>>
    /\ conversation_history = EmptyDict

NextMemClient ==
    \E session_id \in MemSessionIds, question \in MemQuestions,
       use_context \in BOOLEAN, w \in Worlds :
          MemoryQuery(session_id, question, use_context, w)

SpecMemClient == MemClientInit /\ [][NextMemClient]_vars

(***************************************************************************)
(* The application of main.py: POST /upload and POST /query over the       *)
(* module-level documents and conversation_history.  Each request arrives  *)
(* at the next clock tick.                                                 *)
(***************************************************************************)

HARMFUL_KEYWORDS ==
    << "violence", "harmful", "illegal", "explicit", "inappropriate", "offensive",
       "hate", "discrimination", "abuse", "threat", "dangerous", "toxic" >>

PROFANITY_FILTER == << "spam", "scam", "fraud" >>

\* len(text) > 2000
MaxQuestionChars == 2000

\* text.count('http') > 5 or text.count('www') > 3
MaxHttp == 5

MaxWww == 3

\* conversation_history[session_id][-10:]
HistoryKept == 10

\* get_conversation_context(session_id, max_history=3)
MaxHistory == 3

\* exchange['answer'][:200]
ContextExchangeChars == 200

\* the first keyword of the list that occurs in text_lower, "" when none does
RECURSIVE FirstContained(_, _)
FirstContained(keywords, text_lower) ==
    IF keywords = <<>> THEN ""
    ELSE IF Contains(text_lower, Head(keywords)) THEN Head(keywords)
    ELSE FirstContained(Tail(keywords), text_lower)

\* the checks of moderate_content once the keyword scans are done
ModerationVerdict(text, harmful, filtered) ==
    IF harmful # ""
    THEN [is_safe |-> FALSE,
          reason |-> "Content contains inappropriate material: " \o harmful]
    ELSE IF filtered # ""
    THEN [is_safe |-> FALSE,
          reason |-> "Content contains filtered language: " \o filtered]
    ELSE IF Len(text) > MaxQuestionChars
    THEN [is_safe |-> FALSE, reason |-> "Question too long (max 2000 characters)"]
    ELSE IF Count(text, "http") > MaxHttp \/ Count(text, "www") > MaxWww
    THEN [is_safe |-> FALSE, reason |-> "Too many URLs detected"]
    ELSE [is_safe |-> TRUE, reason |-> "Content is safe"]

\* moderate_content(text)
moderate_content(text) ==
    ModerationVerdict(text,
                      FirstContained(HARMFUL_KEYWORDS, Lower(text)),
                      FirstContained(PROFANITY_FILTER, Lower(text)))

\* f"Previous Q{i+1}: {exchange['question']}\nPrevious A{i+1}: {exchange['answer'][:200]}...\n\n"
RECURSIVE ContextOf(_, _)
ContextOf(history, i) ==
    IF i > Len(history) THEN ""
    ELSE "Previous Q" \o PageNumbers[i] \o ": " \o history[i].question \o "\n"
         \o "Previous A" \o PageNumbers[i] \o ": "
         \o Prefix(history[i].answer, ContextExchangeChars) \o "...\n\n"
         \o ContextOf(history, i + 1)

\* get_conversation_context(session_id)
get_conversation_context(history, session_id) ==
    IF session_id \notin DOMAIN history THEN ""
    ELSE ContextOf(PySliceFrom(history[session_id], 0 - MaxHistory), 1)

\* the list of a session after the append and the trim of store_conversation
KeepLast(exchanges) ==
    IF Len(exchanges) > HistoryKept THEN PySliceFrom(exchanges, 0 - HistoryKept)
    ELSE exchanges

\* store_conversation(session_id, question, answer, source): the value of
\* conversation_history afterwards
store_conversation(history, session_id, question, answer, source, clock) ==
    DictSet(history, session_id,
        KeepLast(Append(IF session_id \in DOMAIN history THEN history[session_id]
                        ELSE <<>>,
                        [question |-> question, answer |-> answer,
                         source |-> source, timestamp |-> clock])))

\* the files a browser posts to /upload
AppFiles == DOMAIN PdfPages \cup {"readme.txt"}

\* Python's s.endswith(suffix)
EndsWith(s, suffix) ==
    /\ Len(s) >= Len(suffix)
    /\ SubSeq(s, Len(s) - Len(suffix) + 1, Len(s)) = suffix

\* hashlib.md5(content).hexdigest()[:8]: one id per file content
AppDocId(filename) == "md5:" \o filename

\* raw_text: every non-empty page, cleaned, followed by a newline
RECURSIVE RawText(_)
RawText(pages) ==
    IF pages = <<>> THEN ""
    ELSE (IF Head(pages) # ""
          THEN Replace(Replace(Head(pages), "\n\n", "\n"), "\t", " ") \o "\n"
          ELSE "")
         \o RawText(Tail(pages))

\* text = ' '.join(raw_text.split())
NormalizedText(raw_text) == Join(" ", Split(raw_text))

\* the entry /upload stores under the document id
DocumentEntry(filename, pages, raw_text, text) ==
    [doc_id |-> AppDocId(filename), filename |-> filename, text |-> text,
     raw_text |-> raw_text, pages |-> Len(pages), word_count |-> Len(Split(text))]

UploadedDocument(filename) ==
    DocumentEntry(filename, PdfPages[filename], RawText(PdfPages[filename]),
                  NormalizedText(RawText(PdfPages[filename])))

\* documents[doc_id] = {...}; a dict keeps the position of a key it holds
StoreDocument(docs, entry) ==
    IF \E i \in 1..Len(docs) : docs[i].doc_id = entry.doc_id
    THEN [i \in 1..Len(docs) |-> IF docs[i].doc_id = entry.doc_id THEN entry ELSE docs[i]]
    ELSE Append(docs, entry)

\* POST /upload: what it returns and the value of documents afterwards
upload(docs, filename) ==
    IF ~EndsWith(filename, ".pdf")
    THEN [response |-> [kind |-> "upload", success |-> FALSE,
                        error |-> "Only PDF files supported"],
          documents |-> docs]
    ELSE IF ~PdfReadable(filename)
    THEN [response |-> [kind |-> "upload", success |-> FALSE,
                        error |-> "Upload failed: EOF marker not found"],
          documents |-> docs]
    ELSE [response |-> [kind |-> "upload", success |-> TRUE,
                        document_id |-> AppDocId(filename),
                        pages_processed |-> Len(PdfPages[filename])],
          documents |-> StoreDocument(docs, UploadedDocument(filename))]

\* word.lower().strip('.,!?;:"()[]')
Punctuation == {".", ",", "!", "?", ";", ":", "\"", "(", ")", "[", "]"}

\* question_words = [... for word in q.split() if len(word) > 1]
question_words(q) ==
    LET words == SelectSeq(Split(q), LAMBDA word : Len(word) > 1)
    IN  [i \in 1..Len(words) |-> StripChars(Lower(words[i]), Punctuation)]

\* [piece.strip() for piece in pieces if len(piece.strip()) > longer_than]
StrippedLongerThan(pieces, longer_than) ==
    LET kept == SelectSeq(pieces, LAMBDA piece : Len(Strip(piece)) > longer_than)
    IN  [i \in 1..Len(kept) |-> Strip(kept[i])]

\* Strategy 1: split by sentences
Sentences(text) ==
    StrippedLongerThan(
        SplitOn(Replace(Replace(Replace(text, "\n", " "), "!", "."), "?", "."), "."),
        20)

\* Strategy 2: split by paragraphs
Paragraphs(raw_text) == StrippedLongerThan(SplitOn(raw_text, "\n\n"), 50)

\* Strategy 3: for i in range(0, len(words), 50): ' '.join(words[i:i+100])
RECURSIVE FixedChunks(_, _)
FixedChunks(words, i) ==
    IF i >= Len(words) THEN <<>>
    ELSE (IF Len(Join(" ", SubSeq(words, i + 1,
                     IF i + 100 < Len(words) THEN i + 100 ELSE Len(words)))) > 100
          THEN << Join(" ", SubSeq(words, i + 1,
                     IF i + 100 < Len(words) THEN i + 100 ELSE Len(words))) >>
          ELSE <<>>)
         \o FixedChunks(words, i + 50)

LongDocumentChunks(words) ==
    IF Len(words) > 100 THEN FixedChunks(words, 0) ELSE <<>>

text_chunks(doc) ==
    Sentences(doc.text) \o Paragraphs(doc.raw_text)
    \o LongDocumentChunks(Split(doc.text))

\* exact_matches = sum(1 for word in question_words if word in chunk_lower)
ExactMatches(words, chunk_lower) ==
    Cardinality({i \in 1..Len(words) : Contains(chunk_lower, words[i])})

\* the words whose stem word[:-1] occurs while the word does not
PartialMatches(words, chunk_lower) ==
    Cardinality({i \in 1..Len(words) :
        /\ Len(words[i]) > 3
        /\ Contains(chunk_lower, Prefix(words[i], Len(words[i]) - 1))
        /\ ~Contains(chunk_lower, words[i])})

PhraseMatches(words, chunk_lower) ==
    IF Len(words) >= 2 /\ Contains(chunk_lower, Join(" ", words)) THEN 1 ELSE 0

\* total_matches = exact_matches + 0.5 * partial + 0.3 * phrase, in tenths
TotalMatches(exact, partial, phrase) == 10 * exact + 5 * partial + 3 * phrase

\* relevance_score = total_matches / max(total_words, 1), + 0.05 for a chunk
\* longer than 100 characters, + 0.1 for two exact matches or more
Relevance(chunk, total_words, exact, total_tenths) ==
    LET n == IF total_words > 1 THEN total_words ELSE 1
    IN  Q(10 * total_tenths
          + (IF Len(chunk) > 100 THEN 5 * n ELSE 0)
          + (IF exact >= 2 THEN 10 * n ELSE 0),
          100 * n)

NoBestMatch ==
    [found |-> FALSE, score |-> Zero, answer |-> "", filename |-> "",
     confidence |-> Zero, matches |-> 0, relevance |-> Zero]

\* if relevance_score > best_score and relevance_score > 0.1: ...
ConsiderScore(best, chunk, filename, exact, relevance_score) ==
    IF QLt(best.score, relevance_score) /\ QLt(Q(1, 10), relevance_score)
    THEN [found |-> TRUE, score |-> relevance_score,
          answer |-> IF Len(chunk) > 1000 THEN Prefix(chunk, 1000) \o "..." ELSE chunk,
          filename |-> filename,
          confidence |-> QMin(Q(95, 100),
                              QAdd(QMul(relevance_score, Q(8, 10)), Q(2, 10))),
          matches |-> exact, relevance |-> relevance_score]
    ELSE best

\* if total_matches > 0: ...
ConsiderChunk(best, chunk, filename, total_words, exact, total_tenths) ==
    IF total_tenths > 0
    THEN ConsiderScore(best, chunk, filename, exact,
                       Relevance(chunk, total_words, exact, total_tenths))
    ELSE best

\* for chunk in text_chunks: ...
RECURSIVE SearchChunks(_, _, _, _)
SearchChunks(best, chunks, filename, words) ==
    IF chunks = <<>> THEN best
    ELSE SearchChunks(
             ConsiderChunk(best, Head(chunks), filename, Len(words),
                 ExactMatches(words, Lower(Head(chunks))),
                 TotalMatches(ExactMatches(words, Lower(Head(chunks))),
                              PartialMatches(words, Lower(Head(chunks))),
                              PhraseMatches(words, Lower(Head(chunks))))),
             Tail(chunks), filename, words)

\* for doc_id, doc in documents.items(): ...
RECURSIVE SearchDocuments(_, _, _)
SearchDocuments(best, docs, q) ==
    IF docs = <<>> THEN best
    ELSE SearchDocuments(
             SearchChunks(best, text_chunks(Head(docs)), Head(docs).filename,
                          question_words(q)),
             Tail(docs), q)

\* STEP 1 of /query: the best match of the uploaded documents
best_match(docs, q) == SearchDocuments(NoBestMatch, docs, q)

\* "why why ... ": a question of more than 2000 characters
RECURSIVE Repeat(_, _)
Repeat(s, n) ==
    IF n = 0 THEN ""
    ELSE IF n % 2 = 1 THEN s \o Repeat(s, n - 1)
    ELSE Repeat(s \o s, n \div 2)

LongQuestion == Repeat("why ", 501)

UnsafeQuestions ==
    { "how to commit fraud", "Is this TOXIC?", "www.a www.b www.c www.d",
      LongQuestion }

\* a question of white space only
BlankQuestion == "   "

SafeQuestions ==
    { "What is retrieval augmented generation?", "asdkjasdlkj nonsense query",
      BlankQuestion }

\* the question of a request; "" is a request without one
AppQuestions == SafeQuestions \cup UnsafeQuestions \cup {""}

\* the session_id of a request; "" is a request without one
AppSessionIds == {"", "s1"}

\* what api.duckduckgo.com does when /query asks it
AppWebWorlds == {"down", "empty", "abstract"}

\* every value documents takes: the readable files in any order of upload
AppDocStores ==
    {<<>>} \cup {<<UploadedDocument(a)>> : a \in ReadablePdfs}
           \cup {<<UploadedDocument(a), UploadedDocument(b)>> :
                    <<a, b>> \in {p \in ReadablePdfs \X ReadablePdfs : p[1] # p[2]}}

\* the two scans of the questions above, computed once
Moderations == [q \in AppQuestions |-> moderate_content(q)]

BestMatches ==
    [docs \in AppDocStores, q \in SafeQuestions |-> best_match(docs, q)]

Moderation(q) ==
    IF q \in AppQuestions THEN Moderations[q] ELSE moderate_content(q)

BestMatch(docs, q) ==
    IF <<docs, q>> \in DOMAIN BestMatches THEN BestMatches[docs, q]
    ELSE best_match(docs, q)

\* sid = request.session_id if request and request.session_id else session_id or "default"
SessionOf(session_id) == IF session_id # "" THEN session_id ELSE "default"

FallbackAnswer ==
    "I don't have specific information about that. Try uploading a relevant document or rephrasing your question."

\* the web and fallback responses share their fields; each is stored once
Answered(history, sid, q, clock, has_context, answer, source, confidence) ==
    [response |-> [kind |-> "response", success |-> TRUE, answer |-> answer,
                   source |-> source, confidence |-> confidence,
                   session_id |-> sid, has_context |-> has_context,
                   timestamp |-> clock],
     conversation_history |-> store_conversation(history, sid, q, answer, source, clock),
     lookups |-> <<"documents", "web">>]

\* STEP 2 and STEP 3 of /query (lines 441-487)
WebOrFallback(history, sid, q, clock, has_context, data) ==
    IF ~data.raised /\ data.Abstract # ""
    THEN Answered(history, sid, q, clock, has_context,
                  data.Abstract, "web_search", Q(7, 10))
    ELSE Answered(history, sid, q, clock, has_context,
                  FallbackAnswer, "fallback", Q(3, 10))

\* the end of STEP 1 (lines 419-437)
AfterDocumentSearch(history, sid, q, clock, has_context, web, best) ==
    IF best.found
    THEN [response |-> [kind |-> "response", success |-> TRUE,
                        answer |-> best.answer, source |-> "uploaded_document",
                        filename |-> best.filename, confidence |-> best.confidence,
                        matches_found |-> best.matches,
                        relevance_score |-> best.relevance,
                        session_id |-> sid, has_context |-> has_context,
                        timestamp |-> clock],
          conversation_history |->
              store_conversation(history, sid, q, best.answer, "uploaded_document", clock),
          lookups |-> <<"documents">>]
    ELSE WebOrFallback(history, sid, q, clock, has_context, DdgResponse(web, q))

\* a handler that computes the verdict and answers the question regardless
AfterModeration_ignored(history, docs, sid, q, clock, web, verdict) ==
    AfterDocumentSearch(history, sid, q, clock,
                        get_conversation_context(history, sid) # "",
                        web, best_match(docs, q))

\* STEP 0 of /query (lines 319-327): a question the moderation flags is
\* answered at once
AfterModeration(history, docs, sid, q, clock, web, verdict) ==
    IF ~verdict.is_safe
    THEN [response |-> [kind |-> "response", success |-> FALSE,
                        error |-> "Content moderation: " \o verdict.reason,
                        moderated |-> TRUE, timestamp |-> clock],
          conversation_history |-> history,
          lookups |-> <<>>]
    ELSE AfterDocumentSearch(history, sid, q, clock,
                             get_conversation_context(history, sid) # "",
                             web, BestMatch(docs, q))

\* POST /query of main.py: its response, the value of conversation_history
\* afterwards and the lookups it made
main_query(history, docs, q, session_id, clock, web) ==
    IF q = ""
    THEN [response |-> [kind |-> "response", success |-> FALSE,
                        error |-> "No question provided"],
          conversation_history |-> history,
          lookups |-> <<>>]
    ELSE AfterModeration(history, docs, SessionOf(session_id), q, clock, web,
                         Moderation(q))

AppInit ==
    /\ documents = <<>>
    /\ conversation_history = EmptyDict
    /\ conversations = EmptyDict
    /\ max_turns = 0
    /\ now = 0
    /\ cleanup_ret = 0
    /\ client_documents = <<>>
    /\ threshold = DefaultThreshold
    /\ retriever = FALSE
    /\ document_retriever = FALSE
    /\ web_search = FALSE
    /\ groq_key = FALSE
    /\ result = [kind |-> "none"]
    /\ call = [op |-> "none"]

AppUnchanged ==
    UNCHANGED <<conversations, max_turns, cleanup_ret, client_documents, threshold,
                retriever, document_retriever, web_search, groq_key>>

UploadReturn(filename, out) ==
    /\ documents' = out.documents
    /\ result' = out.response
    /\ call' = [op |-> "upload", filename |-> filename]

Upload(filename) ==
    /\ UploadReturn(filename, upload(documents, filename))
    /\ UNCHANGED <<conversation_history, now>>
    /\ AppUnchanged

AppQueryReturn(q, session_id, out) ==
    /\ conversation_history' = out.conversation_history
    /\ result' = out.response
    /\ call' = [op |-> "app_query", q |-> q, session_id |-> SessionOf(session_id),
                before |-> conversation_history, lookups |-> out.lookups]

AppQuery(q, session_id, web) ==
    /\ now < MaxTicks
    /\ now' = now + 1
    /\ AppQueryReturn(q, session_id,
                      main_query(conversation_history, documents, q, session_id, now, web))
    /\ UNCHANGED documents
    /\ AppUnchanged

NextApp ==
    \/ \E filename \in AppFiles : Upload(filename)
    \/ \E q \in AppQuestions, session_id \in AppSessionIds, web \in AppWebWorlds :
          AppQuery(q, session_id, web)

SpecApp == AppInit /\ [][NextApp]_vars

(***************************************************************************)
(* MemoryClient.query asked repeatedly while the outside world stays what  *)
(* it is: the vector store, the web search and the language model give the *)
(* same responses to the same requests throughout a behaviour.  The world  *)
(* is chosen once and carried in call.world.                               *)
(***************************************************************************)
\* what MCPClient._documents holds when the questions arrive
RepeatDocStores == {<<>>, <<StoredDoc("rag.pdf")>>, <<StoredDoc("notes.pdf")>>}

\* what the request before this one returned, when it was the same request
Earlier(session_id, question, use_context) ==
    IF /\ call.op = "memory_query"
       /\ call.session_id = session_id
       /\ call.query = question
       /\ call.use_context = use_context
    THEN [asked |-> TRUE, source |-> result.source, tiers |-> call.obs.tiers]
    ELSE [asked |-> FALSE, source |-> "", tiers |-> <<>>]

RepeatRecord(session_id, question, use_context, out) ==
    /\ conversations' = add_turn(conversations, max_turns, session_id, question,
                                 out.result.answer, out.result.source,
                                 out.result.confidence, now)
    /\ result' = WithMemory(out.result, conversations', session_id)
    /\ call' = [op |-> "memory_query", session_id |-> session_id,
                query |-> question, use_context |-> use_context,
                world |-> call.world, obs |-> out.obs,
                earlier |-> Earlier(session_id, question, use_context)]
    /\ document_retriever' = out.obs.loaded

\* MemoryClient.query(session_id, query, use_context) in the world call.world
RepeatQuery(session_id, question, use_context) ==
    /\ now < MaxTicks
    /\ now' = now + 1
    /\ RepeatRecord(session_id, question, use_context,
                    query(EnhancedQuery(session_id, question, use_context),
                          threshold, "loop",
                          call.world.astra, call.world.web, call.world.llm))
    /\ UNCHANGED <<max_turns, cleanup_ret, client_documents, threshold,
                   retriever, web_search, groq_key, appvars>>

RepeatInit ==
    /\ client_documents \in RepeatDocStores
    /\ threshold = DefaultThreshold
    /\ retriever \in BOOLEAN
    /\ document_retriever = FALSE
    /\ web_search \in BOOLEAN
    /\ groq_key \in BOOLEAN
    /\ result = [kind |-> "none"]
    /\ \E w \in Worlds : call = [op |-> "none", world |-> w]
    /\ conversations = EmptyDict
    /\ max_turns \in 1..MaxTurnsBound
    /\ now = 0
    /\ cleanup_ret = 0
    /\ documents = <<>>
    /\ conversation_history = EmptyDict

NextRepeat ==
    \E session_id \in MemSessionIds, question \in MemQuestions,
       use_context \in BOOLEAN :
          RepeatQuery(session_id, question, use_context)

SpecRepeat == RepeatInit /\ [][NextRepeat]_vars

(***************************************************************************)
(* MCPClient.query call by call: the request waits at each outbound call   *)
(* until the dependency answers or, where the call was given a timeout,    *)
(* the timeout fires.  The outbound calls of one query, in order:          *)
(*   astra_connect  EnhancedRetriever(): DataAPIClient(...).get_database... *)
(*   llm_expand     groq_client.chat.completions.create (_expand_query)    *)
(*   astra_find     collection.find({}, limit=100)                         *)
(*   ddg_get        requests.get(..., timeout=6) of the web search         *)
(*   llm_summarize  groq.chat.completions.create (summarize_with_groq)     *)
(***************************************************************************)
\* the calls that are passed a timeout
HasTimeout(pc) == pc = "ddg_get"

Running == call.op = "query_running"

\* the request waits at the outbound call pc
Await(pc, st, astra, llm, web) ==
    /\ call' = [op |-> "query_running", pc |-> pc, st |-> st,
                astra |-> astra, llm |-> llm, web |-> web]
    /\ UNCHANGED <<result, document_retriever>>

\* the request returns to its caller
Return(st) == Finish("query", FallbackStep(st))

\* Step 3 is reached: the web search is asked when there is a web tool
EnterWeb(st) ==
    IF st.done \/ ~web_search THEN Return(st)
    ELSE Await("ddg_get", st, "down", "down", "down")

\* Step 2 is reached: the first outbound call of call_retriever
EnterVector(st) ==
    IF st.done THEN Return(st)
    ELSE IF ~retriever THEN EnterWeb(st)
    ELSE Await(IF ~document_retriever THEN "astra_connect"
               ELSE IF groq_key THEN "llm_expand" ELSE "astra_find",
               st, "unknown", "down", "down")

\* the web search is over: the summary is asked of the language model when
\* the tool holds a Groq client
AfterSearch(web) ==
    IF groq_key THEN Await("llm_summarize", call.st, call.astra, call.llm, web)
    ELSE Return(WebStep(call.st, web, "down"))

BeginQuery(question) ==
    /\ ~Running
    /\ EnterVector(DocumentStep(StartTime("loop", Started(question, threshold))))
    /\ UNCHANGED <<client_documents, threshold, retriever, web_search, groq_key,
                   memvars, appvars>>

\* the dependency the request waits for answers, or fails
Responds ==
    /\ Running
    /\ \/ /\ call.pc = "astra_connect"
          /\ \E astra \in AstraWorlds :
                IF astra = "down" THEN Return(VectorStep(call.st, "down", "down"))
                ELSE Await(IF groq_key THEN "llm_expand" ELSE "astra_find",
                           call.st, astra, "down", "down")
       \/ /\ call.pc = "llm_expand"
          /\ \E llm \in LlmWorlds :
                Await("astra_find", call.st, call.astra, llm, "down")
       \/ /\ call.pc = "astra_find"
          /\ \E astra \in AstraWorlds :
                /\ call.astra # "unknown" => astra = call.astra
                /\ EnterWeb(VectorStep(call.st, astra, call.llm))
       \/ /\ call.pc = "ddg_get"
          /\ \E web \in WebWorlds : AfterSearch(web)
       \/ /\ call.pc = "llm_summarize"
          /\ \E llm \in LlmWorlds : Return(WebStep(call.st, call.web, llm))
    /\ UNCHANGED <<client_documents, threshold, retriever, web_search, groq_key,
                   memvars, appvars>>

\* the timeout of the pending call fires: requests raises, the web search
\* catches it and goes on without a result
TimesOut ==
    /\ Running
    /\ HasTimeout(call.pc)
    /\ AfterSearch("down")
    /\ UNCHANGED <<client_documents, threshold, retriever, web_search, groq_key,
                   memvars, appvars>>

NextInFlight ==
    \/ \E question \in Questions : BeginQuery(question)
    \/ Responds
    \/ TimesOut

\* a timer that was set fires; nothing obliges a dependency to answer
SpecInFlight == Init /\ [][NextInFlight]_vars /\ WF_vars(TimesOut)

(***************************************************************************)
(* ContentModerator (src/app/core/moderation.py)                           *)
(* A Python value handed to the moderator is a record of its type and its  *)
(* characters: the functions are annotated `text: str` and test nothing.   *)
(***************************************************************************)
PyStr(s) == [type |-> "str", value |-> s]

PyBytes(s) == [type |-> "bytes", value |-> s]

PyNone == [type |-> "NoneType", value |-> ""]

\* the keys of self.patterns, in insertion order
ModerationCategories == <<"profanity", "harmful", "inappropriate">>

\* self.patterns: each regular expression is an alternation of literals,
\* between two \b when bounded (the (?:...) groups are written out)
ModerationPatterns ==
    [profanity |->
        << [bounded |-> TRUE,
            alternatives |-> <<"damn", "hell", "shit", "fuck", "bitch", "ass">>],
           [bounded |-> TRUE, alternatives |-> <<"idiot", "stupid", "dumb">>] >>,
     harmful |->
        << [bounded |-> FALSE,
            alternatives |-> <<"how to hack", "how to break", "how to steal",
                               "how to harm">>],
           [bounded |-> FALSE,
            alternatives |-> <<"make bomb", "make weapon", "make drug">>] >>,
     inappropriate |->
        << [bounded |-> FALSE, alternatives |-> <<"sexual", "porn", "explicit">>],
           [bounded |-> FALSE, alternatives |-> <<"violence", "gore">>],
           [bounded |-> FALSE, alternatives |-> <<"racist", "discrimination">>] >>]

\* \w of the re module, for the characters that occur
WordChars ==
    {SubSeq(LowerAlphabet, i, i) : i \in 1..Len(LowerAlphabet)}
    \cup {SubSeq(UpperAlphabet, i, i) : i \in 1..Len(UpperAlphabet)}
    \cup {"0", "1", "2", "3", "4", "5", "6", "7", "8", "9", "_"}

IsWordChar(s, i) == i >= 1 /\ i <= Len(s) /\ SubSeq(s, i, i) \in WordChars

\* \b between position i - 1 and position i of s
WordBoundary(s, i) == IsWordChar(s, i - 1) # IsWordChar(s, i)

\* a pattern that matches at every offset where a literal occurs, the \b
\* forgotten
MatchAt_unbounded(pattern, s, i) ==
    LET fits == {k \in 1..Len(pattern.alternatives) :
                    StartsAt(s, pattern.alternatives[k], i)}
    IN  IF fits = {} THEN ""
        ELSE pattern.alternatives[CHOOSE k \in fits : \A j \in fits : k <= j]

\* what the pattern matches at offset i of s: the first alternative that
\* fits there, or "" when none does
MatchAt(pattern, s, i) ==
    LET fits == {k \in 1..Len(pattern.alternatives) :
                    /\ StartsAt(s, pattern.alternatives[k], i)
                    /\ pattern.bounded =>
                          /\ WordBoundary(s, i)
                          /\ WordBoundary(s, i + Len(pattern.alternatives[k]))}
    IN  IF fits = {} THEN ""
        ELSE pattern.alternatives[CHOOSE k \in fits : \A j \in fits : k <= j]

\* re.findall(pattern, s): the matches from offset i on, left to right,
\* without overlap
RECURSIVE FindAll(_, _, _)
FindAll(pattern, s, i) ==
    IF i > Len(s) THEN <<>>
    ELSE IF MatchAt(pattern, s, i) = "" THEN FindAll(pattern, s, i + 1)
    ELSE <<MatchAt(pattern, s, i)>>
         \o FindAll(pattern, s, i + Len(MatchAt(pattern, s, i)))

RECURSIVE FindAllPatterns(_, _)
FindAllPatterns(patterns, s) ==
    IF patterns = <<>> THEN <<>>
    ELSE FindAll(Head(patterns), s, 1) \o FindAllPatterns(Tail(patterns), s)

\* check_patterns: re raises TypeError for a str pattern on a bytes object
check_patterns(text, category) ==
    IF text.type = "bytes" THEN [raised |-> TRUE, flagged |-> <<>>]
    ELSE [raised |-> FALSE,
          flagged |-> FindAllPatterns(ModerationPatterns[category],
                                      Lower(text.value))]

ModerationResult(is_safe, flagged_content, reason, confidence) ==
    [kind |-> "returned", is_safe |-> is_safe, flagged_content |-> flagged_content,
     reason |-> reason, confidence |-> confidence]

\* the loop of moderate_content over the categories from the k-th on;
\* acc holds all_flagged and reasons
RECURSIVE ScanCategories(_, _, _)
ScanCategories(text, k, acc) ==
    IF k > Len(ModerationCategories) THEN acc
    ELSE LET scan == check_patterns(text, ModerationCategories[k])
         IN  IF scan.raised THEN [acc EXCEPT !.raised = TRUE]
             ELSE IF scan.flagged = <<>> THEN ScanCategories(text, k + 1, acc)
             ELSE ScanCategories(text, k + 1,
                      [acc EXCEPT !.all_flagged = @ \o scan.flagged,
                                  !.reasons = Append(@, ModerationCategories[k])])

\* ContentModerator.moderate_content; list(set(all_flagged)) is the set
ModerationOutcome(scanned) ==
    IF scanned.raised THEN [kind |-> "raised", error |-> "TypeError"]
    ELSE ModerationResult(scanned.all_flagged = <<>>, SetOf(scanned.all_flagged),
                          IF scanned.reasons # <<>> THEN Join(", ", scanned.reasons)
                          ELSE "approved",
                          IF scanned.all_flagged = <<>> THEN One ELSE Q(7, 10))

moderator_moderate_content(text) ==
    IF text.type = "NoneType" \/ text.value = "" \/ Strip(text.value) = ""
    THEN ModerationResult(TRUE, {}, "Empty content", One)
    ELSE ModerationOutcome(
             ScanCategories(text, 1,
                 [raised |-> FALSE, all_flagged |-> <<>>, reasons |-> <<>>]))

\* ContentModerator.get_response
get_response(reason) ==
    LET first == SplitOn(reason, ", ")[1]
    IN  IF first = "profanity" THEN "Please use appropriate language."
        ELSE IF first = "harmful" THEN "I cannot assist with harmful activities."
        ELSE IF first = "inappropriate" THEN "Please ask about appropriate topics."
        ELSE "I cannot assist with this request."

UserInputVerdict(moderated) ==
    IF moderated.kind = "raised" THEN moderated
    ELSE [kind |-> "returned", is_safe |-> moderated.is_safe,
          message |-> IF moderated.is_safe THEN ""
                      ELSE get_response(moderated.reason)]

\* the texts handed to the moderator: a subject between a prefix and a suffix
ModerationSubjects ==
    {"Hello", "damn", "DAMN", "hello", "class", "ass", "Stupid", "how to hack",
     "How To Steal", "make weapon", "explicit", "violence", "racist", " "}

ModerationPrefixes == {"", "un", "gore, ", "idiot "}

ModerationSuffixes == {"", "s", "!", " make drug"}

ModerationTexts ==
    {PyStr(p \o w \o x) :
        p \in ModerationPrefixes, w \in ModerationSubjects, x \in ModerationSuffixes}
    \cup {PyStr(""), PyStr(" \n\t"), PyNone, PyBytes("Hello"), PyBytes("   ")}

\* the scans of the texts above, computed once
Moderated == [text \in ModerationTexts |-> moderator_moderate_content(text)]

moderate_user_input(text) == UserInputVerdict(Moderated[text])

ModerationInit == AppInit

ModerationIdle == <<memvars, client_documents, threshold, retriever,
                    document_retriever, web_search, groq_key, appvars>>

ModerateContent(text) ==
    /\ call' = [op |-> "moderate_content", text |-> text]
    /\ result' = Moderated[text]
    /\ UNCHANGED ModerationIdle

ModerateUserInput(text) ==
    /\ call' = [op |-> "moderate_user_input", text |-> text]
    /\ result' = moderate_user_input(text)
    /\ UNCHANGED ModerationIdle

NextModeration ==
    \/ \E text \in ModerationTexts : ModerateContent(text)
    \/ \E text \in ModerationTexts : ModerateUserInput(text)

SpecModeration == ModerationInit /\ [][NextModeration]_vars

(***************************************************************************)
(* QueryOptimizer (src/app/core/optimizer.py)                              *)
(***************************************************************************)
\* the longest list of results handed to rerank_results
MaxResults == 3

\* self.intent_patterns, in the order of the dict literal; every pattern is
\* a literal between two \b, `means?` and `failed?` written as alternations
IntentPatterns ==
    << [intent |-> "definition",
        patterns |-> << [bounded |-> TRUE, alternatives |-> <<"what is">>],
                        [bounded |-> TRUE, alternatives |-> <<"define">>],
                        [bounded |-> TRUE, alternatives |-> <<"means", "mean">>],
                        [bounded |-> TRUE, alternatives |-> <<"meaning of">>] >>],
       [intent |-> "howto",
        patterns |-> << [bounded |-> TRUE, alternatives |-> <<"how to">>],
                        [bounded |-> TRUE, alternatives |-> <<"how do">>],
                        [bounded |-> TRUE, alternatives |-> <<"steps to">>],
                        [bounded |-> TRUE, alternatives |-> <<"process of">>] >>],
       [intent |-> "comparison",
        patterns |-> << [bounded |-> TRUE, alternatives |-> <<"vs">>],
                        [bounded |-> TRUE, alternatives |-> <<"versus">>],
                        [bounded |-> TRUE, alternatives |-> <<"compare">>],
                        [bounded |-> TRUE, alternatives |-> <<"difference">>] >>],
       [intent |-> "example",
        patterns |-> << [bounded |-> TRUE, alternatives |-> <<"example">>],
                        [bounded |-> TRUE, alternatives |-> <<"for instance">>],
                        [bounded |-> TRUE, alternatives |-> <<"such as">>],
                        [bounded |-> TRUE, alternatives |-> <<"like">>] >>],
       [intent |-> "troubleshoot",
        patterns |-> << [bounded |-> TRUE, alternatives |-> <<"error">>],
                        [bounded |-> TRUE, alternatives |-> <<"problem">>],
                        [bounded |-> TRUE, alternatives |-> <<"issue">>],
                        [bounded |-> TRUE, alternatives |-> <<"failed", "faile">>] >>] >>

\* re.search(pattern, s) finds a match
re_search(pattern, s) == \E i \in 1..Len(s) : MatchAt(pattern, s, i) # ""

\* the inner loop of detect_intent: some pattern of the list is found
AnyPatternFound(patterns, s) ==
    \E k \in 1..Len(patterns) : re_search(patterns[k], s)

\* the outer loop of detect_intent taking the last intent before the first,
\* against the order of the dict
RECURSIVE IntentFrom_last_wins(_, _)
IntentFrom_last_wins(intents, s) ==
    IF intents = <<>> THEN "general"
    ELSE IF AnyPatternFound(intents[Len(intents)].patterns, s)
         THEN intents[Len(intents)].intent
         ELSE IntentFrom_last_wins(SubSeq(intents, 1, Len(intents) - 1), s)

\* the outer loop of detect_intent over the intents that remain
RECURSIVE IntentFrom(_, _)
IntentFrom(intents, s) ==
    IF intents = <<>> THEN "general"
    ELSE IF AnyPatternFound(Head(intents).patterns, s) THEN Head(intents).intent
         ELSE IntentFrom(Tail(intents), s)

detect_intent(q) == IntentFrom(IntentPatterns, Lower(q))

StopWords == {"the", "is", "at", "which", "on", "and", "a", "to", "are", "as",
              "of", "in", "for", "with"}

\* re.findall(r'\b\w+\b', s) as a set: the maximal runs of word characters
WordRuns(s) ==
    {SubSeq(s, i, j) : <<i, j>> \in
        {ij \in (1..Len(s)) \X (1..Len(s)) :
            /\ ij[1] <= ij[2]
            /\ \A k \in ij[1]..ij[2] : IsWordChar(s, k)
            /\ ~IsWordChar(s, ij[1] - 1)
            /\ ~IsWordChar(s, ij[2] + 1)}}

\* extract_keywords; the list it returns is list(set(...)), read here as the
\* set
extract_keywords(q) ==
    {word \in WordRuns(Lower(q)) : Len(word) > 2 /\ word \notin StopWords}

\* the fields of the QueryContext of optimize_query that rerank_results reads
QueryContext(q) == [keywords |-> extract_keywords(q), intent |-> detect_intent(q)]

\* dict.get(key, default)
DictGet(d, key, default) == IF key \in DOMAIN d THEN d[key] ELSE default

KeywordBoost(content, keywords) ==
    Q(Cardinality({keyword \in keywords : Contains(content, keyword)}), 10)

IntentBoost(content, intent) ==
    IF /\ intent = "definition"
       /\ \E word \in {"is", "means", "defined"} : Contains(content, word)
    THEN Q(15, 100)
    ELSE IF /\ intent = "howto"
            /\ \E word \in {"step", "process", "method"} : Contains(content, word)
    THEN Q(15, 100)
    ELSE Zero

score_boost(res, context) ==
    QAdd(KeywordBoost(Lower(DictGet(res, "content", "")), context.keywords),
         IntentBoost(Lower(DictGet(res, "content", "")), context.intent))

\* the adjusted score without the min(1.0, ...)
optimized_score_uncapped(res, context) ==
    QAdd(DictGet(res, "score", Zero), score_boost(res, context))

optimized_score(res, context) ==
    QMin(One, QAdd(DictGet(res, "score", Zero), score_boost(res, context)))

\* the body of the for loop: the two keys written into the result
Boosted(res, context) ==
    [optimized_score |-> optimized_score(res, context),
     score_boost |-> score_boost(res, context)] @@ res

\* sorted(..., reverse=True) is stable: a result goes behind every result
\* already placed whose key is not smaller
RECURSIVE InsertByScore(_, _)
InsertByScore(res, placed) ==
    IF placed = <<>> THEN <<res>>
    ELSE IF QLt(Head(placed).optimized_score, res.optimized_score)
         THEN <<res>> \o placed
         ELSE <<Head(placed)>> \o InsertByScore(res, Tail(placed))

RECURSIVE SortedByScore(_, _)
SortedByScore(results, placed) ==
    IF results = <<>> THEN placed
    ELSE SortedByScore(Tail(results), InsertByScore(Head(results), placed))

rerank_results(results, context) ==
    IF results = <<>> THEN results
    ELSE SortedByScore([i \in 1..Len(results) |-> Boosted(results[i], context)],
                       <<>>)

\* the queries whose intent is asked
IntentQueries ==
    {"What is RAG?", "How to define a retriever", "what is how to",
     "RAG vs search", "Process of ingestion, for instance", "it failed",
     "Errors like this", "What does RAG mean", "the meaning", "whatis RAG",
     "Compare the steps to an example", "hello", ""}

\* the queries whose results are re-ranked
RerankQueries == {"What is RAG?", "How to choose a retrieval method", "hello"}

\* the results a retriever hands over: content and score, either may be
\* missing
ResultPool ==
    { [content |-> "RAG is retrieval augmented generation", score |-> Q(9, 10)],
      [content |-> "A retrieval method in three steps", score |-> Q(9, 10)],
      [content |-> "Unrelated", score |-> Q(1, 2)],
      [content |-> "rag", score |-> Q(1, 2)],
      [content |-> "What RAG means"],
      [score |-> One] }

ResultLists == UNION {[1..n -> ResultPool] : n \in 0..MaxResults}

\* the arguments of the calls: a query whose intent is asked, or results to
\* re-rank under the context of a query
OptimizerCalls ==
    {[op |-> "none", query |-> q, results |-> <<>>] : q \in IntentQueries}
    \cup {[op |-> "none", query |-> q, results |-> results] :
             q \in RerankQueries, results \in ResultLists}

OptimizerIdle == <<memvars, client_documents, threshold, retriever,
                   document_retriever, web_search, groq_key, appvars>>

OptimizerInit ==
    /\ call \in OptimizerCalls
    /\ result = [kind |-> "none"]
    /\ documents = <<>>
    /\ conversation_history = EmptyDict
    /\ conversations = EmptyDict
    /\ max_turns = 0
    /\ now = 0
    /\ cleanup_ret = 0
    /\ client_documents = <<>>
    /\ threshold = DefaultThreshold
    /\ retriever = FALSE
    /\ document_retriever = FALSE
    /\ web_search = FALSE
    /\ groq_key = FALSE

DetectIntent ==
    /\ call.op = "none"
    /\ call' = [call EXCEPT !.op = "detect_intent"]
    /\ result' = [kind |-> "returned", intent |-> detect_intent(call.query)]
    /\ UNCHANGED OptimizerIdle

RerankResults ==
    /\ call.op = "none"
    /\ call' = [call EXCEPT !.op = "rerank_results"]
    /\ result' = [kind |-> "returned",
                  context |-> QueryContext(call.query),
                  results |-> rerank_results(call.results,
                                             QueryContext(call.query))]
    /\ UNCHANGED OptimizerIdle

NextOptimizer ==
    \/ DetectIntent
    \/ RerankResults

SpecOptimizer == OptimizerInit /\ [][NextOptimizer]_vars

(***************************************************************************)
(* chunk_text of the multi-file ingestion                                  *)
(* (src/src/etl/data_ingestion_multi.py, lines 48-67), one iteration of    *)
(* its while loop per step.                                                *)
(***************************************************************************)
\* chunk_size is drawn from 1..MaxChunkSize, overlap from 0..chunk_size - 1
MaxChunkSize == 4

\* the pieces of the list `chunks` that the state records; what is appended
\* after them is only remembered as `more`
MaxPieces == 6

\* a slice index of Python brought into 0..n
PyIndex(i, n) ==
    IF i < 0 THEN (IF i + n < 0 THEN 0 ELSE i + n)
    ELSE (IF i > n THEN n ELSE i)

\* text[start:end]
PySlice(text, start, end) ==
    SubSeq(text, PyIndex(start, Len(text)) + 1, PyIndex(end, Len(text)))

\* text.rfind(ch, start, end): 0-based, -1 when ch does not occur
rfind(text, ch, start, end) ==
    LET hits == {k \in PyIndex(start, Len(text))..(PyIndex(end, Len(text)) - 1) :
                    SubSeq(text, k + 1, k + 1) = ch}
    IN  IF hits = {} THEN -1
        ELSE CHOOSE k \in hits : \A j \in hits : j <= k

Min(a, b) == IF a <= b THEN a ELSE b

\* lines 55-60: the end of the piece that begins at start
ChunkEnd(text, chunk_size, start) ==
    LET limit == Min(start + chunk_size, Len(text))
    IN  IF /\ limit < Len(text)
           /\ rfind(text, ".", start, limit) > start + (chunk_size \div 2)
        THEN rfind(text, ".", start, limit) + 1
        ELSE limit

\* line 61
ChunkPiece(text, chunk_size, start) ==
    Strip(PySlice(text, start, ChunkEnd(text, chunk_size, start)))

\* line 64: start = end - overlap
NextStart(text, chunk_size, overlap, start) ==
    ChunkEnd(text, chunk_size, start) - overlap

\* lines 62-63 on the recorded part of the list
Appended(chunks, piece) ==
    IF piece = "" THEN chunks
    ELSE IF Len(chunks.pieces) < MaxPieces
         THEN [chunks EXCEPT !.pieces = Append(@, piece)]
         ELSE [chunks EXCEPT !.more = TRUE]

NoChunks == [pieces |-> <<>>, more |-> FALSE]

\* the texts given to chunk_text
ChunkTexts == {"ab. cd", "abc", " x ", "a.b.c.d", "one. two.", "   ", ""}

ChunkCalls ==
    {[op |-> "chunk_text", pc |-> "called", text |-> text,
      chunk_size |-> chunk_size, overlap |-> overlap, start |-> 0] :
        text \in ChunkTexts,
        chunk_size \in 1..MaxChunkSize,
        overlap \in 0..(MaxChunkSize - 1)}

ChunkIdle == <<memvars, client_documents, threshold, retriever,
               document_retriever, web_search, groq_key, appvars>>

ChunkInit ==
    /\ call \in {c \in ChunkCalls : c.overlap < c.chunk_size}
    /\ result = [kind |-> "none", chunks |-> NoChunks]
    /\ documents = <<>>
    /\ conversation_history = EmptyDict
    /\ conversations = EmptyDict
    /\ max_turns = 0
    /\ now = 0
    /\ cleanup_ret = 0
    /\ client_documents = <<>>
    /\ threshold = DefaultThreshold
    /\ retriever = FALSE
    /\ document_retriever = FALSE
    /\ web_search = FALSE
    /\ groq_key = FALSE

\* lines 49-54: a blank text returns [], any other enters the loop at 0
ChunkEnter ==
    /\ call.pc = "called"
    /\ IF Strip(call.text) = ""
       THEN /\ call' = [call EXCEPT !.pc = "returned"]
            /\ result' = [kind |-> "returned", chunks |-> NoChunks]
       ELSE /\ call' = [call EXCEPT !.pc = "loop"]
            /\ UNCHANGED result
    /\ UNCHANGED ChunkIdle

\* lines 55-66: one iteration, then the break or the test of the while
ChunkStep ==
    /\ call.pc = "loop"
    /\ call' = [call EXCEPT
                  !.start = NextStart(call.text, call.chunk_size, call.overlap,
                                      call.start),
                  !.pc = IF NextStart(call.text, call.chunk_size, call.overlap,
                                      call.start) >= Len(call.text)
                         THEN "returned" ELSE "loop"]
    /\ result' = [kind |-> IF call'.pc = "returned" THEN "returned" ELSE "none",
                  chunks |-> Appended(result.chunks,
                                      ChunkPiece(call.text, call.chunk_size,
                                                 call.start))]
    /\ UNCHANGED ChunkIdle

NextChunk ==
    \/ ChunkEnter
    \/ ChunkStep

\* a loop that is running runs its next iteration
SpecChunk == ChunkInit /\ [][NextChunk]_vars /\ WF_vars(ChunkEnter) /\ WF_vars(ChunkStep)

(***************************************************************************)
(* MultiIngestion.run (src/src/etl/data_ingestion_multi.py, lines 89-150): *)
(* the files of the data folder in sorted order, each extracted, chunked   *)
(* with the defaults of chunk_text and upserted chunk by chunk.            *)
(***************************************************************************)
\* chunk_text(text, chunk_size=800, overlap=100)
IngestChunkSize == 800

IngestOverlap == 100

\* run is called at most this many times
MaxRuns == 2

\* the data folder holds at most this many files
MaxFiles == 2

\* the files a data folder may hold, in the order of their paths; partition
\* fails on an unreadable one
FilePool ==
    << [path |-> "datafolder/a.txt", name |-> "a.txt", readable |-> TRUE,
        text |-> "Hello."],
       [path |-> "datafolder/b.txt", name |-> "b.txt", readable |-> TRUE,
        text |-> "   "],
       [path |-> "datafolder/c.pdf", name |-> "c.pdf", readable |-> FALSE,
        text |-> ""],
       [path |-> "datafolder/d.txt", name |-> "d.txt", readable |-> TRUE,
        text |-> "First sentence. Second sentence."] >>

\* iter_files: sorted(self.data_dir.rglob("*")), for the files chosen
FolderOf(chosen) ==
    [k \in 1..Cardinality(chosen) |->
        FilePool[CHOOSE i \in chosen : Cardinality({j \in chosen : j < i}) = k - 1]]

Folders ==
    {FolderOf(chosen) : chosen \in {c \in SUBSET (1..Len(FilePool)) :
                                       Cardinality(c) <= MaxFiles}}

NoCounts == [processed |-> 0, failed |-> 0, total_chunks |-> 0, total_upserts |-> 0]

\* extract_text_any raises when partition fails or the text is blank
ExtractFails(file) == ~file.readable \/ Strip(file.text) = ""

\* sha1_hex(f"{fp.as_posix()}::{idx}::{len(piece)}"), the digest taken as
\* one-to-one on these strings
ChunkId(file, idx, piece) == <<file.path, idx, Len(piece)>>

\* the document of lines 119-129; the embedder is a function of the piece
ChunkDoc(file, idx, piece) ==
    [_id |-> ChunkId(file, idx, piece),
     text |-> piece,
     metadata |-> [source |-> file.path, chunk_index |-> idx,
                   total_len |-> Len(file.text), filename |-> file.name],
     embedding |-> <<"embedding", piece>>]

\* upsert_chunk for the pieces from index idx on:
\* update_one({"_id": _id}, {"$set": doc}, upsert=True)
RECURSIVE UpsertFrom(_, _, _, _)
UpsertFrom(collection, file, pieces, idx) ==
    IF idx >= Len(pieces) THEN collection
    ELSE UpsertFrom(DictSet(collection, ChunkId(file, idx, pieces[idx + 1]),
                            ChunkDoc(file, idx, pieces[idx + 1])),
                    file, pieces, idx + 1)

\* the for loop of run moves to the next file, or run returns
Advance(c, collection) ==
    IF c.file = Len(c.folder)
    THEN [c EXCEPT !.pc = "idle", !.file = 0, !.start = 0, !.runs = @ + 1,
                   !.after_first = IF c.runs = 0 THEN collection ELSE @]
    ELSE [c EXCEPT !.pc = "file", !.file = @ + 1, !.start = 0]

\* lines 143-144
FileFailed(res) == [res EXCEPT !.counts.failed = @ + 1, !.chunks = NoChunks]

IngestIdle == <<memvars, client_documents, threshold, retriever,
                document_retriever, web_search, groq_key, appvars>>

IngestInit ==
    /\ \E folder \in Folders :
          call = [op |-> "run", folder |-> folder, runs |-> 0, file |-> 0,
                     pc |-> "idle", start |-> 0, after_first |-> EmptyDict]
    /\ result = [kind |-> "none", collection |-> EmptyDict, chunks |-> NoChunks,
                 counts |-> NoCounts]
    /\ documents = <<>>
    /\ conversation_history = EmptyDict
    /\ conversations = EmptyDict
    /\ max_turns = 0
    /\ now = 0
    /\ cleanup_ret = 0
    /\ client_documents = <<>>
    /\ threshold = DefaultThreshold
    /\ retriever = FALSE
    /\ document_retriever = FALSE
    /\ web_search = FALSE
    /\ groq_key = FALSE

\* run is called: the counters start at 0 and the first file is taken
StartRun ==
    /\ call.pc = "idle"
    /\ call.runs < MaxRuns
    /\ call' = Advance(call, result.collection)
    /\ result' = [result EXCEPT !.kind = IF call'.pc = "idle" THEN "returned"
                                         ELSE "none",
                                !.counts = NoCounts, !.chunks = NoChunks]
    /\ UNCHANGED IngestIdle

\* process_file up to the loop of chunk_text: extract_text_any raises, or
\* the text is not blank and the loop is entered at start = 0
ExtractText ==
    /\ call.pc = "file"
    /\ IF ExtractFails(call.folder[call.file])
       THEN /\ call' = Advance(call, result.collection)
            /\ result' = [FileFailed(result) EXCEPT
                            !.kind = IF call'.pc = "idle" THEN "returned"
                                     ELSE "none"]
       ELSE /\ call' = [call EXCEPT !.pc = "loop", !.start = 0]
            /\ result' = [result EXCEPT !.chunks = NoChunks]
    /\ UNCHANGED IngestIdle

\* the pieces upserted and the file counted (lines 115-134, 146-148)
FileProcessed(res, file, chunks) ==
    [res EXCEPT !.collection = UpsertFrom(@, file, chunks.pieces, 0),
                !.counts.processed = @ + 1,
                !.counts.total_chunks = @ + Len(chunks.pieces),
                !.counts.total_upserts = @ + Len(chunks.pieces),
                !.chunks = NoChunks]

\* one iteration of the loop of chunk_text; when the loop ends, the rest of
\* process_file
IngestStep ==
    /\ call.pc = "loop"
    /\ IF NextStart(call.folder[call.file].text, IngestChunkSize, IngestOverlap,
                    call.start) >= Len(call.folder[call.file].text)
       THEN /\ result' = FileProcessed(result, call.folder[call.file],
                            Appended(result.chunks,
                                     ChunkPiece(call.folder[call.file].text,
                                                IngestChunkSize, call.start)))
            /\ call' = Advance(call, result'.collection)
       ELSE /\ call' = [call EXCEPT
                          !.start = NextStart(call.folder[call.file].text,
                                              IngestChunkSize, IngestOverlap,
                                              call.start)]
            /\ result' = [result EXCEPT
                            !.chunks = Appended(@,
                                ChunkPiece(call.folder[call.file].text,
                                           IngestChunkSize, call.start))]
    /\ UNCHANGED IngestIdle

\* the list of chunks has outgrown the memory: MemoryError, caught by the
\* except of process_file
MemoryExhausted ==
    /\ call.pc = "loop"
    /\ result.chunks.more
    /\ call' = Advance(call, result.collection)
    /\ result' = [FileFailed(result) EXCEPT
                    !.kind = IF call'.pc = "idle" THEN "returned" ELSE "none"]
    /\ UNCHANGED IngestIdle

NextIngest ==
    \/ StartRun
    \/ ExtractText
    \/ IngestStep
    \/ MemoryExhausted

\* a run that was started keeps executing
SpecIngest ==
    /\ IngestInit
    /\ [][NextIngest]_vars
    /\ WF_vars(StartRun)
    /\ WF_vars(ExtractText)
    /\ WF_vars(IngestStep)

(***************************************************************************)
(* ConversationMemory shared by threads: add_turn (lines 29-39) and        *)
(* cleanup_old (lines 80-89) of src/app/core/memory.py hold no lock, and   *)
(* the interpreter may switch threads between any two of their reads and   *)
(* writes of self.conversations.  One such read or write per step.         *)
(***************************************************************************)
Threads == {"t1", "t2"}

\* the session the threads work on
ThreadSession == "s1"

\* add_turn is called at most this many times, cleanup_old this many
MaxAdds == 3

MaxSweeps == 2

\* the query of the k-th call of add_turn
ThreadQueries == <<"q1", "q2", "q3", "q4", "q5">>

\* a thread outside any call
IdleThread == [op |-> "none", pc |-> "idle", query |-> "", stamp |-> 0,
               attached |-> FALSE, kept |-> <<>>, expired |-> <<>>, seen |-> 0,
               removed |-> 0]

\* thread t has put a new list under the key, or deleted the key: the list
\* objects the other threads looked up are no longer the one in the dict
Detached(threads, t) ==
    [u \in Threads |-> IF u = t THEN threads[u]
                       ELSE [threads[u] EXCEPT !.attached = FALSE]]

ThreadIdle == <<max_turns, client_documents, threshold, retriever,
                document_retriever, web_search, groq_key, appvars>>

ThreadInit ==
    /\ conversations = EmptyDict
    /\ max_turns \in 1..MaxTurnsBound
    /\ now = 0
    /\ cleanup_ret = 0
    /\ call = [threads |-> [t \in Threads |-> IdleThread], adds |-> 0, sweeps |-> 0]
    /\ result = [kind |-> "none", added |-> {}, failed |-> {}]
    /\ documents = <<>>
    /\ conversation_history = EmptyDict
    /\ client_documents = <<>>
    /\ threshold = DefaultThreshold
    /\ retriever = FALSE
    /\ document_retriever = FALSE
    /\ web_search = FALSE
    /\ groq_key = FALSE

\* the call of thread t ends with an exception
Raises(t, error) ==
    /\ call' = [call EXCEPT !.threads[t] = IdleThread]
    /\ result' = [result EXCEPT
                    !.failed = @ \cup {[op |-> call.threads[t].op, error |-> error]}]
    /\ UNCHANGED <<conversations, cleanup_ret>>

\* thread t moves on to pc without touching the dict
Proceeds(t, th) ==
    /\ call' = [call EXCEPT !.threads[t] = th]
    /\ UNCHANGED <<conversations, cleanup_ret, result>>

CallAddTurn(t) ==
    /\ call.threads[t].pc = "idle"
    /\ call.adds < MaxAdds
    /\ call' = [call EXCEPT !.adds = @ + 1,
                            !.threads[t] = [IdleThread EXCEPT
                                              !.op = "add_turn", !.pc = "check",
                                              !.query = ThreadQueries[call.adds + 1]]]
    /\ UNCHANGED <<conversations, now, cleanup_ret, result, ThreadIdle>>

\* line 31: if session_id not in self.conversations
AddCheck(t, th) ==
    /\ th.pc = "check"
    /\ Proceeds(t, [th EXCEPT !.pc = IF ThreadSession \in DOMAIN conversations
                                     THEN "lookup" ELSE "create"])

\* line 32: self.conversations[session_id] = []
AddCreate(t, th) ==
    /\ th.pc = "create"
    /\ conversations' = DictSet(conversations, ThreadSession, <<>>)
    /\ call' = [call EXCEPT
                  !.threads = [Detached(call.threads, t) EXCEPT
                                 ![t] = [th EXCEPT !.pc = "lookup"]]]
    /\ UNCHANGED <<cleanup_ret, result>>

\* lines 34-35: the Turn is built with datetime.now() and the list is looked
\* up for append
AddLookup(t, th) ==
    /\ th.pc = "lookup"
    /\ IF ThreadSession \notin DOMAIN conversations
       THEN Raises(t, "KeyError")
       ELSE Proceeds(t, [th EXCEPT !.pc = "append", !.attached = TRUE,
                                   !.stamp = now])

\* line 35: .append(turn) on the list that was looked up
AddAppend(t, th) ==
    /\ th.pc = "append"
    /\ conversations' =
          IF th.attached
          THEN DictSet(conversations, ThreadSession,
                       Append(conversations[ThreadSession],
                              Turn(th.query, "response", "astradb", One, th.stamp)))
          ELSE conversations
    /\ call' = [call EXCEPT !.threads[t] = [th EXCEPT !.pc = "len",
                                                      !.attached = FALSE]]
    /\ UNCHANGED <<cleanup_ret, result>>

\* add_turn returns
AddReturns(t, th) ==
    /\ call' = [call EXCEPT !.threads[t] = IdleThread]
    /\ result' = [result EXCEPT !.added = @ \cup {th.query}]
    /\ UNCHANGED cleanup_ret

\* line 38: if len(self.conversations[session_id]) > self.max_turns
AddLen(t, th) ==
    /\ th.pc = "len"
    /\ IF ThreadSession \notin DOMAIN conversations
       THEN Raises(t, "KeyError")
       ELSE IF Len(conversations[ThreadSession]) > max_turns
       THEN Proceeds(t, [th EXCEPT !.pc = "slice"])
       ELSE AddReturns(t, th) /\ UNCHANGED conversations

\* line 39, right-hand side: self.conversations[session_id][-self.max_turns:]
AddSlice(t, th) ==
    /\ th.pc = "slice"
    /\ IF ThreadSession \notin DOMAIN conversations
       THEN Raises(t, "KeyError")
       ELSE Proceeds(t, [th EXCEPT
                           !.pc = "store",
                           !.kept = TrimTurns(conversations[ThreadSession],
                                              max_turns)])

\* line 39, the assignment
AddStore(t, th) ==
    /\ th.pc = "store"
    /\ conversations' = DictSet(conversations, ThreadSession, th.kept)
    /\ call' = [call EXCEPT !.threads = [Detached(call.threads, t) EXCEPT
                                           ![t] = IdleThread]]
    /\ result' = [result EXCEPT !.added = @ \cup {th.query}]
    /\ UNCHANGED cleanup_ret

AddTurnThread(t) ==
    /\ call.threads[t].op = "add_turn"
    /\ \/ AddCheck(t, call.threads[t])
       \/ AddCreate(t, call.threads[t])
       \/ AddLookup(t, call.threads[t])
       \/ AddAppend(t, call.threads[t])
       \/ AddLen(t, call.threads[t])
       \/ AddSlice(t, call.threads[t])
       \/ AddStore(t, call.threads[t])
    /\ UNCHANGED <<now, ThreadIdle>>

CallCleanupOld(t) ==
    /\ call.threads[t].pc = "idle"
    /\ call.sweeps < MaxSweeps
    /\ call' = [call EXCEPT !.sweeps = @ + 1,
                            !.threads[t] = [IdleThread EXCEPT
                                              !.op = "cleanup_old", !.pc = "scan"]]
    /\ UNCHANGED <<conversations, now, cleanup_ret, result, ThreadIdle>>

\* line 83: the iteration over self.conversations.items() begins
SweepScan(t, th) ==
    /\ th.pc = "scan"
    /\ Proceeds(t, [th EXCEPT !.pc = "collect",
                              !.seen = Cardinality(DOMAIN conversations)])

\* lines 82-84: the iteration goes on; a dict that changed size since it
\* began raises RuntimeError, otherwise the expired ids are collected
SweepCollect(t, th) ==
    /\ th.pc = "collect"
    /\ IF Cardinality(DOMAIN conversations) # th.seen
       THEN Raises(t, "RuntimeError")
       ELSE Proceeds(t, [th EXCEPT
                           !.pc = "delete",
                           !.expired = IF ThreadSession \in Expired(conversations, now)
                                       THEN <<ThreadSession>> ELSE <<>>])

\* lines 86-89: del self.conversations[sid] for the next expired id, or
\* return len(expired)
SweepDelete(t, th) ==
    /\ th.pc = "delete"
    /\ IF th.expired = <<>>
       THEN /\ cleanup_ret' = th.removed
            /\ call' = [call EXCEPT !.threads[t] = IdleThread]
            /\ UNCHANGED <<conversations, result>>
       ELSE IF Head(th.expired) \notin DOMAIN conversations
       THEN Raises(t, "KeyError")
       ELSE /\ conversations' = DictDel(conversations, {Head(th.expired)})
            /\ call' = [call EXCEPT
                          !.threads = [Detached(call.threads, t) EXCEPT
                                         ![t] = [th EXCEPT
                                                   !.expired = Tail(@),
                                                   !.removed = @ + 1]]]
            /\ UNCHANGED <<cleanup_ret, result>>

CleanupThread(t) ==
    /\ call.threads[t].op = "cleanup_old"
    /\ \/ SweepScan(t, call.threads[t])
       \/ SweepCollect(t, call.threads[t])
       \/ SweepDelete(t, call.threads[t])
    /\ UNCHANGED <<now, ThreadIdle>>

\* time passes
ThreadTick ==
    /\ now < MaxTicks
    /\ now' = now + 1
    /\ UNCHANGED <<conversations, cleanup_ret, call, result, ThreadIdle>>

NextThreads ==
    \/ \E t \in Threads : CallAddTurn(t)
    \/ \E t \in Threads : AddTurnThread(t)
    \/ \E t \in Threads : CallCleanupOld(t)
    \/ \E t \in Threads : CleanupThread(t)
    \/ ThreadTick

SpecThreads == ThreadInit /\ [][NextThreads]_vars

(***************************************************************************)
(* Properties of MCPClient.query, checked under Spec.                      *)
(***************************************************************************)

\* the last operation was a query, through any of its three entry points
QueryDone == call.op \in {"query", "async_query", "server_query"}

\* ... and it returned a result envelope
Returned == QueryDone /\ result.kind = "returned"

Consulted(tier) == \E i \in 1..Len(call.obs.tiers) : call.obs.tiers[i] = tier

\* what each tier would have answered to the last question, whether or not
\* the request got as far as asking it
DocumentWouldMatch ==
    /\ client_documents # <<>>
    /\ UploadedAnswer(client_documents, call.obs.question).found

VectorWouldAccept(w) ==
    /\ retriever
    /\ ~RetrieverAnswer(call.obs.was_loaded, groq_key, w.llm, w.astra,
                        call.obs.question).raised
    /\ RetrieverAnswer(call.obs.was_loaded, groq_key, w.llm, w.astra,
                       call.obs.question).documents # <<>>
    /\ QLe(call.obs.threshold,
           RetrieverAnswer(call.obs.was_loaded, groq_key, w.llm, w.astra,
                           call.obs.question).documents[1].score)

WebWouldAccept(w) ==
    /\ web_search
    /\ WebAccepts(WebAnswer(groq_key, w.llm, w.web, call.obs.question))

\* the vector tier was consulted and its first candidate met the threshold
VectorAccepted ==
    /\ Consulted("vector")
    /\ call.obs.scores # <<>>
    /\ QLe(call.obs.threshold, call.obs.scores[1])

\* C2: the tiers are consulted in the order uploaded documents, vector store,
\* web search, and the first one that accepts ends the request: a matching
\* uploaded document gives the source "uploaded_document" and nothing else is
\* consulted, whatever the vector store and the web would have answered, and
\* when the vector tier accepts the web tier is not consulted.
C2_TierOrder ==
    Returned =>
        /\ call.obs.tiers \in { <<>>, <<"documents">>, <<"vector">>, <<"web">>,
                                <<"documents", "vector">>, <<"documents", "web">>,
                                <<"vector", "web">>, <<"documents", "vector", "web">> }
        /\ DocumentWouldMatch =>
              /\ result.success /\ result.source = "uploaded_document"
              /\ call.obs.tiers = <<"documents">>
        /\ result.source = "uploaded_document" => DocumentWouldMatch
        /\ VectorAccepted =>
              /\ result.success /\ result.source = "astradb"
              /\ ~Consulted("web")
        /\ result.source = "astradb" => (~DocumentWouldMatch /\ VectorAccepted)
        /\ result.source = "web_search" =>
              /\ ~DocumentWouldMatch
              /\ ~VectorAccepted
              /\ call.obs.tiers[Len(call.obs.tiers)] = "web"

\* a request answered from an uploaded document, made in a world where the
\* vector store held a candidate at or above the threshold and the web
\* search had an answer
C2_Witness ==
    /\ call.op = "query"
    /\ Returned
    /\ result.source = "uploaded_document"
    /\ \E w \in Worlds :
          /\ VectorWouldAccept(w)
          /\ WebWouldAccept(w)
          /\ result = query(call.obs.question, call.obs.threshold, "loop",
                            w.astra, w.web, w.llm).result

\* C3: the vector tier accepts exactly when the first candidate's score is
\* greater than or equal to the threshold in force for the request; with a
\* lower score, or with no candidate, the result never carries the source
\* "astradb" and the web tier is the next one consulted (when a web search
\* tool is configured).
C3_VectorThreshold ==
    (Returned /\ Consulted("vector") /\ ~call.obs.vector_raised) =>
        /\ result.source = "astradb" <=>
              /\ call.obs.scores # <<>>
              /\ QLe(call.obs.threshold, call.obs.scores[1])
        /\ result.source = "astradb" =>
              /\ result.success
              /\ QEq(result.confidence, call.obs.scores[1])
        /\ (result.source # "astradb" /\ web_search) => Consulted("web")

\* the boundary: a first score equal to the threshold is accepted
C3_Witness ==
    /\ Returned
    /\ result.source = "astradb"
    /\ QEq(call.obs.scores[1], call.obs.threshold)
    /\ call.obs.threshold[1] > 0

\* no tier accepted and nothing raised: the request reached Step 4
ReachedFallback == Returned /\ result.answer = NothingFound

\* C4: when no tier accepts and no exception occurs, the result is the
\* terminal fallback with success = true, source "fallback", confidence 0.3.
C4_FallbackEnvelope ==
    ReachedFallback =>
        /\ result.success
        /\ result.source = "fallback"
        /\ QEq(result.confidence, Q(3, 10))

\* what MCPClient.query returns at Step 4
C4_Witness ==
    /\ ReachedFallback
    /\ ~result.success
    /\ result.source = "none"
    /\ QEq(result.confidence, Zero)

\* C5: when the web search finds no snippet or abstract (or the request
\* fails), the summary is empty or holds the no-information marker, and the
\* result does not have the source "web_search".
C5_EmptyWebNotAccepted ==
    (Returned /\ Consulted("web") /\ ~call.obs.web_found) =>
        /\ ~WebAccepts(call.obs.web_answer)
        /\ result.source # "web_search"

\* the placeholder snippet of search_duckduckgo returned as a web answer
C5_Witness ==
    /\ Returned
    /\ Consulted("web")
    /\ ~call.obs.web_found
    /\ result.success
    /\ result.source = "web_search"

\* C6: query and async_query never raise to the caller; every call returns
\* a result envelope.
C6_NeverRaises == QueryDone => result.kind = "returned"

\* async_query raised out of the worker thread
C6_Witness ==
    /\ call.op = "async_query"
    /\ result.kind = "raised"

\* C7: a failure of the vector store adapter is recovered by skipping to the
\* web tier; the caller never receives a result reporting the vector store
\* error.
C7_VectorFailureSkipsToWeb ==
    (Returned /\ Consulted("vector") /\ call.obs.astra_down) =>
        /\ ~Contains(result.answer, "Failed to connect to AstraDB")
        /\ web_search => Consulted("web")

\* the connection failure of load_retriever reported to the caller
C7_Witness ==
    /\ Returned
    /\ call.obs.vector_raised
    /\ web_search
    /\ ~Consulted("web")
    /\ result.answer = "Processing error occurred: Failed to connect to AstraDB"

\* C8: every result with success = true has a confidence between 0 and 1.
C8_ConfidenceInUnitInterval ==
    (Returned /\ result.success) =>
        /\ QLe(Zero, result.confidence)
        /\ QLe(result.confidence, One)

\* a vector-tier acceptance whose confidence is an occurrence count
C8_Witness ==
    /\ Returned
    /\ result.success
    /\ result.source = "astradb"
    /\ QLt(One, result.confidence)

(***************************************************************************)
(* Properties of the conversation memory.                                  *)
(***************************************************************************)

\* the turns of a session, none when the session does not exist
TurnsOf(convs, session_id) ==
    IF session_id \in DOMAIN convs THEN convs[session_id] ELSE <<>>

\* C9: turns correspond one to one to successful answers: a MemoryClient.query
\* that returns success = true appends one turn to the session of the request
\* and leaves every other session alone, and one that returns success = false
\* leaves the memory as it was.
C9_TurnsMatchSuccesses ==
    call.op = "memory_query" =>
        /\ \A sid \in MemSessionIds \ {call.session_id} :
              TurnsOf(conversations, sid) = TurnsOf(call.before, sid)
        /\ result.success =>
              /\ conversations[call.session_id] # <<>>
              /\ conversations[call.session_id][Len(conversations[call.session_id])].query
                    = call.query
        /\ ~result.success => conversations = call.before

\* a turn recorded for a request that returned success = false
C9_Witness ==
    /\ call.op = "memory_query"
    /\ ~result.success
    /\ Len(TurnsOf(conversations, call.session_id))
          = Len(TurnsOf(call.before, call.session_id)) + 1

\* C10: for every configured max_turns, a session never holds more than
\* max_turns turns, and get_stats never reports more.
C10_SessionBound ==
    \A sid \in DOMAIN conversations :
        /\ Len(conversations[sid]) <= max_turns
        /\ conversations[sid] # <<>> =>
              get_stats(conversations, sid).turns <= max_turns

\* ConversationMemory(max_turns = 0) holding a turn
C10_Witness ==
    /\ max_turns = 0
    /\ \E sid \in DOMAIN conversations :
          /\ Len(conversations[sid]) > 0
          /\ get_stats(conversations, sid).turns > max_turns

\* a step of add_turn: the only steps that end with call.op = "add_turn" and
\* leave the clock alone
AddTurnStep == call'.op = "add_turn" /\ now' = now

\* the turn the add_turn of this step was given
AddedTurn ==
    Turn(call'.query, MemAnswers[call'.query].response,
         MemAnswers[call'.query].source, MemAnswers[call'.query].confidence, now)

\* the last n elements of seq, all of them when it has fewer than n
LastN(seq, n) ==
    IF n >= Len(seq) THEN seq ELSE SubSeq(seq, Len(seq) - n + 1, Len(seq))

\* the sessions other than session_id are what they were before the step
OthersUntouched(session_id) ==
    \A sid \in SessionIds \ {session_id} :
        /\ sid \in DOMAIN conversations' <=> sid \in DOMAIN conversations
        /\ TurnsOf(conversations', sid) = TurnsOf(conversations, sid)

\* C11: trimming drops the oldest turns first: every add_turn leaves in its
\* session exactly the last min(n, max_turns) of the turns added so far, in
\* the order they were added (n = turns held before + 1), and leaves every
\* other session as it was.
C11_OldestDroppedFirst ==
    [][AddTurnStep =>
          LET sid == call'.session_id
              added == Append(TurnsOf(conversations, sid), AddedTurn)
              kept == IF Len(added) < max_turns THEN Len(added) ELSE max_turns
          IN  /\ sid \in DOMAIN conversations'
              /\ conversations'[sid] = LastN(added, kept)
              /\ OthersUntouched(sid)]_vars

\* two turns held by a session of a memory built with max_turns = 0, the
\* second one just added
C11_Witness ==
    /\ call.op = "add_turn"
    /\ max_turns = 0
    /\ Len(TurnsOf(conversations, call.session_id)) = 2
    /\ conversations[call.session_id][2].query = call.query

\* a step of cleanup_old
CleanupStep == call'.op = "cleanup_old" /\ now' = now

\* the most recent turn of the session is older than max_age at time clock
LastTurnTooOld(turns, clock) ==
    /\ turns # <<>>
    /\ (clock - turns[Len(turns)].timestamp) * TickHours > MaxAgeHours

\* C12: cleanup_old removes exactly the sessions whose most recent turn is
\* older than max_age, returns how many it removed and leaves every other
\* session as it was; no other operation of the memory (add_turn,
\* get_context, enhance_query, get_stats) removes a session.
C12_OnlyCleanupRemovesExpired ==
    [][/\ CleanupStep =>
             /\ \A sid \in DOMAIN conversations :
                    IF LastTurnTooOld(conversations[sid], now)
                    THEN sid \notin DOMAIN conversations'
                    ELSE /\ sid \in DOMAIN conversations'
                         /\ conversations'[sid] = conversations[sid]
             /\ DOMAIN conversations' \subseteq DOMAIN conversations
             /\ cleanup_ret' = Cardinality({sid \in DOMAIN conversations :
                                    LastTurnTooOld(conversations[sid], now)})
       /\ ~CleanupStep => DOMAIN conversations \subseteq DOMAIN conversations'
      ]_vars

\* cleanup_old has removed one session and kept another, whose first turn is
\* older than max_age and whose last turn is not
C12_Witness ==
    /\ call.op = "cleanup_old"
    /\ cleanup_ret = 1
    /\ \E sid \in DOMAIN conversations :
          /\ Len(conversations[sid]) > 1
          /\ (now - conversations[sid][1].timestamp) * TickHours > MaxAgeHours
          /\ ~LastTurnTooOld(conversations[sid], now)

\* C13: for every requested count N >= 0, get_context renders exactly the
\* last min(N, stored) turns of the session, oldest first, each as a "Q:"
\* line followed by an "A:" line, and returns the empty string for a session
\* id that holds no history.
C13_ContextWindow ==
    call.op = "get_context" =>
        LET turns == TurnsOf(conversations, call.session_id)
            shown == IF call.num_turns < Len(turns) THEN call.num_turns
                     ELSE Len(turns)
        IN  /\ result.text = Join("\n", ContextLines(LastN(turns, shown)))
            /\ call.session_id \notin DOMAIN conversations => result.text = ""

\* get_context(session_id, 0) has rendered turns
C13_Witness ==
    /\ call.op = "get_context"
    /\ call.num_turns = 0
    /\ Len(TurnsOf(conversations, call.session_id)) = 2
    /\ Count(result.text, "Q: ") = 2

\* C14 as stated: a question answered in a session is still in the context
\* rendered for the session after one later turn, which is no more than the
\* context window (DefaultNumTurns turns) holds.
C14_QuestionSurvivesOneLaterTurn ==
    [][(AddTurnStep /\ TurnsOf(conversations, call'.session_id) # <<>>) =>
          LET earlier == conversations[call'.session_id]
          IN  Contains(get_context(conversations', call'.session_id, DefaultNumTurns),
                       "Q: " \o earlier[Len(earlier)].query)]_vars

\* C14: after a question q has been answered in a session the context
\* rendered for the session is non-empty and holds q verbatim, and the next
\* query of the session is enhanced with that context, for as long as the
\* turn of q is among the last DefaultNumTurns turns the session holds (fewer
\* than DefaultNumTurns later turns, the turn not trimmed away by max_turns,
\* the session not swept).
C14_ContextHoldsRecentQuestions ==
    /\ \A sid \in DOMAIN conversations :
          LET turns == conversations[sid]
              context == get_context(conversations, sid, DefaultNumTurns)
          IN  /\ context # ""
              /\ \A i \in 1..Len(turns) :
                    Len(turns) - i < DefaultNumTurns
                        => Contains(context, "Q: " \o turns[i].query)
    /\ call.op = "add_turn" =>
          LET turns == TurnsOf(conversations, call.session_id)
          IN  turns # <<>> /\ turns[Len(turns)].query = call.query
    /\ call.op = "enhance_query" =>
          IF call.session_id \in DOMAIN conversations
          THEN result.text =
                  "Previous conversation:\n"
                  \o get_context(conversations, call.session_id, DefaultNumTurns)
                  \o "\n\nNew question: " \o call.query
          ELSE result.text = call.query

\* the second question of a session enhanced with a context that holds the
\* first question
C14_Witness ==
    /\ call.op = "enhance_query"
    /\ call.query = "How to use it?"
    /\ Len(TurnsOf(conversations, call.session_id)) = 1
    /\ conversations[call.session_id][1].query = "What is Python?"
    /\ Contains(result.text, "Q: What is Python?")
    /\ Contains(result.text, "New question: How to use it?")

(***************************************************************************)
(* Properties of the /query endpoint of main.py, checked under SpecApp.    *)
(***************************************************************************)

\* the questions the safety gate flags: those that hold a harmful or a
\* filtered keyword in any letter case, are longer than 2000 characters, or
\* hold more than 5 "http" or more than 3 "www"
FlaggedQuestions ==
    {q \in AppQuestions \ {""} :
        \/ \E i \in 1..Len(HARMFUL_KEYWORDS) : Contains(Lower(q), HARMFUL_KEYWORDS[i])
        \/ \E i \in 1..Len(PROFANITY_FILTER) : Contains(Lower(q), PROFANITY_FILTER[i])
        \/ Len(q) > 2000
        \/ Count(q, "http") > 5
        \/ Count(q, "www") > 3}

\* the last request was a question the safety gate flags
Flagged == call.op = "app_query" /\ call.q \in FlaggedQuestions

\* C1: a question the safety gate flags is answered with success = false,
\* no turn is appended to any session (conversation_history is what it was
\* before the call), and no document or web lookup is made.
C1_FlaggedNotRecorded ==
    Flagged =>
        /\ result.success = FALSE
        /\ conversation_history = call.before
        /\ call.lookups = <<>>

\* a flagged question asked in a session that already holds a turn, with a
\* document uploaded that a search would have consulted
C1_Witness ==
    /\ Flagged
    /\ result.success = FALSE
    /\ documents # <<>>
    /\ call.session_id \in DOMAIN conversation_history
    /\ conversation_history[call.session_id] # <<>>

\* C15: a question that is empty after trimming white space, a question of
\* white space only included, is rejected: /query returns success = false,
\* runs no tier and records no conversation turn.
C15_BlankQuestionRejected ==
    (call.op = "app_query" /\ Strip(call.q) = "") =>
        /\ result.success = FALSE
        /\ call.lookups = <<>>
        /\ conversation_history = call.before

\* a question of three spaces answered with success = true after the
\* document search and the web request, and recorded as a turn
C15_Witness ==
    /\ call.op = "app_query"
    /\ call.q = BlankQuestion
    /\ result.success = TRUE
    /\ call.lookups = <<"documents", "web">>
    /\ Len(conversation_history[call.session_id])
          = Len(TurnsOf(call.before, call.session_id)) + 1

(***************************************************************************)
(* Properties of the content moderator, checked under SpecModeration.      *)
(***************************************************************************)

\* the literal occurs in s at offset i, as a whole word when the pattern is
\* between \b
LiteralOccurs(pattern, literal, s, i) ==
    /\ StartsAt(s, literal, i)
    /\ pattern.bounded =>
          /\ ~IsWordChar(s, i - 1)
          /\ ~IsWordChar(s, i + Len(literal))

\* some pattern of the category matches somewhere in s
CategoryMatches(category, s) ==
    \E k \in 1..Len(ModerationPatterns[category]) :
        \E a \in 1..Len(ModerationPatterns[category][k].alternatives) :
            \E i \in 1..Len(s) :
                LiteralOccurs(ModerationPatterns[category][k],
                              ModerationPatterns[category][k].alternatives[a], s, i)

MatchingCategories(s) ==
    {k \in 1..Len(ModerationCategories) : CategoryMatches(ModerationCategories[k], s)}

\* C16: moderate_user_input reports a text as safe exactly when no pattern of
\* any category matches its lower-cased form; empty and whitespace-only text
\* is always safe; the returned message is empty exactly when the text is
\* safe.
C16_SafeIffNoPatternMatches ==
    (call.op = "moderate_user_input" /\ call.text.type = "str") =>
        /\ result.kind = "returned"
        /\ result.is_safe <=> MatchingCategories(Lower(call.text.value)) = {}
        /\ Strip(call.text.value) = "" => result.is_safe
        /\ result.message = "" <=> result.is_safe

\* an upper-case match flagged with a message, and the same letters inside a
\* longer word passed
C16_Witness ==
    /\ call.op = "moderate_user_input"
    /\ \/ /\ call.text = PyStr("DAMN!")
          /\ ~result.is_safe
          /\ result.message = "Please use appropriate language."
       \/ /\ call.text = PyStr("undamn")
          /\ result.is_safe
          /\ result.message = ""

\* C17: when patterns of more than one category match, the reason returned
\* is the single first matching category in the order profanity, harmful,
\* inappropriate, not a combination of categories.
C17_SingleFirstCategory ==
    (call.op = "moderate_content" /\ result.kind = "returned" /\ ~result.is_safe) =>
        LET matching == MatchingCategories(Lower(call.text.value))
        IN  /\ matching # {}
            /\ result.reason =
                  ModerationCategories[CHOOSE k \in matching : \A j \in matching : k <= j]

\* two categories reported at once
C17_Witness ==
    /\ call.op = "moderate_content"
    /\ call.text = PyStr("gore, Stupid")
    /\ result.reason = "profanity, inappropriate"

Invocations(tier) ==
    Cardinality({i \in 1..Len(call.obs.tiers) : call.obs.tiers[i] = tier})

\* C20: within one query call no tier is retried: the uploaded-document
\* search, the vector-store adapter and the web adapter are each invoked at
\* most once, and a tier that failed or was rejected is not invoked again in
\* that call.
C20_NoTierRetried ==
    QueryDone =>
        /\ \A tier \in {"documents", "vector", "web"} : Invocations(tier) <= 1
        /\ \A i \in 1..Len(call.obs.tiers) :
              call.obs.tiers[i] \in {"documents", "vector", "web"}
        /\ call.obs.vector_raised =>
              call.obs.tiers[Len(call.obs.tiers)] = "vector"

\* a request that every tier rejected, each asked once
C20_Witness ==
    /\ Returned
    /\ call.obs.tiers = <<"documents", "vector", "web">>
    /\ ~call.obs.doc_found
    /\ result.answer = NothingFound

\* C19: every query eventually returns, even when a dependency never
\* answers: each outbound call of the vector-store tier and of the web tier
\* is bounded by a timeout, after which the request goes on.
C19_EveryQueryReturns == Running ~> ~Running

\* a request waiting for collection.find, a call that was given no timeout
C19_Witness ==
    /\ Running
    /\ call.pc = "astra_find"
    /\ ~HasTimeout(call.pc)

(***************************************************************************)
(* Repeated requests, checked under SpecRepeat.                            *)
(***************************************************************************)

\* C21: the same question asked twice in a row of the same session, against
\* the same documents, the same vector-store, web and language-model
\* responses and the same threshold, consults the same tiers and returns the
\* same source both times; the context MemoryClient.query prepends does not
\* change which tier accepts.
C21_SameTierTwice ==
    (call.op = "memory_query" /\ call.earlier.asked) =>
        /\ result.source = call.earlier.source
        /\ call.obs.tiers = call.earlier.tiers

\* the second of two equal requests answered from another source than the
\* first
C21_Witness ==
    /\ call.op = "memory_query"
    /\ call.earlier.asked
    /\ call.use_context
    /\ result.source # call.earlier.source

(***************************************************************************)
(* Properties of QueryOptimizer, checked under SpecOptimizer.              *)
(***************************************************************************)

\* some pattern of the intent occurs in the lower-cased query, between two
\* word boundaries (stated on the literals, apart from the loops of the
\* code)
IntentOccurs(intent, s) ==
    \E k \in 1..Len(IntentPatterns) :
        /\ IntentPatterns[k].intent = intent
        /\ \E j \in 1..Len(IntentPatterns[k].patterns) :
             \E a \in 1..Len(IntentPatterns[k].patterns[j].alternatives) :
                \E i \in 1..Len(s) :
                   LET literal == IntentPatterns[k].patterns[j].alternatives[a]
                   IN  /\ StartsAt(s, literal, i)
                       /\ WordBoundary(s, i)
                       /\ WordBoundary(s, i + Len(literal))

IntentOrder == <<"definition", "howto", "comparison", "example", "troubleshoot">>

\* C22: detect_intent returns the first category, in the order definition,
\* howto, comparison, example, troubleshoot, one of whose patterns matches
\* the lower-cased query, and general when none matches; a query matching
\* both a definition and a how-to pattern is a definition.
C22_FirstMatchingIntent ==
    call.op = "detect_intent" =>
        LET s == Lower(call.query)
            matching == {k \in 1..Len(IntentOrder) : IntentOccurs(IntentOrder[k], s)}
        IN  /\ matching = {} => result.intent = "general"
            /\ matching # {} =>
                 result.intent = IntentOrder[CHOOSE k \in matching :
                                                \A j \in matching : k <= j]
            /\ (1 \in matching /\ 2 \in matching) => result.intent = "definition"

\* a query with a definition pattern and a how-to pattern, classified
C22_Witness ==
    /\ call.op = "detect_intent"
    /\ IntentOccurs("definition", Lower(call.query))
    /\ IntentOccurs("howto", Lower(call.query))
    /\ result.intent = "definition"

\* the results without the two keys rerank_results writes
Original(res) == [key \in DOMAIN res \ {"optimized_score", "score_boost"} |-> res[key]]

\* C23: rerank_results returns a permutation of its input, ordered by
\* non-increasing adjusted score; every adjusted score is at most 1.0; and
\* results with equal adjusted scores keep their input order.
C23_StableDescendingPermutation ==
    call.op = "rerank_results" =>
        LET input == call.results
            output == result.results
        IN  /\ Len(output) = Len(input)
            /\ \E perm \in [1..Len(input) -> 1..Len(input)] :
                 /\ \A i, j \in 1..Len(input) : i # j => perm[i] # perm[j]
                 /\ \A i \in 1..Len(input) : Original(output[i]) = input[perm[i]]
                 /\ \A i, j \in 1..Len(input) :
                      (i < j /\ QEq(output[i].optimized_score,
                                    output[j].optimized_score))
                         => perm[i] < perm[j]
            /\ \A i \in 1..Len(output) : QLe(output[i].optimized_score, One)
            /\ \A i \in 1..(Len(output) - 1) :
                 QLe(output[i + 1].optimized_score, output[i].optimized_score)

\* three results re-ranked: the first of the input is no longer first, two
\* of them tie, and one was cut to 1.0
C23_Witness ==
    /\ call.op = "rerank_results"
    /\ Len(call.results) = 3
    /\ Original(result.results[1]) # call.results[1]
    /\ \E i \in 1..2 : QEq(result.results[i].optimized_score,
                           result.results[i + 1].optimized_score)
    /\ \E i \in 1..3 :
         /\ QEq(result.results[i].optimized_score, One)
         /\ QLt(One, QAdd(DictGet(result.results[i], "score", Zero),
                          result.results[i].score_boost))

(***************************************************************************)
(* Properties of MCPClient.health_check, checked under SpecHealth.         *)
(***************************************************************************)

\* C24: health_check always returns a report with a status; the status is
\* degraded exactly when both the retriever and the web-search tool are
\* unavailable, and healthy when at least one of them is available.
C24_DegradedIffBothUnavailable ==
    call.op = "health_check" =>
        /\ result.kind = "returned"
        /\ "status" \in DOMAIN result
        /\ result.status \in {"healthy", "degraded"}
        /\ result.status = "degraded" <=> (~retriever /\ ~web_search)
        /\ (retriever \/ web_search) => result.status = "healthy"

\* a client with a retriever and no web-search tool reports healthy
C24_Witness ==
    /\ call.op = "health_check"
    /\ retriever
    /\ ~web_search
    /\ result.status = "healthy"
    /\ result.web_search = "unavailable"

(***************************************************************************)
(* Properties of chunk_text, checked under SpecChunk.                      *)
(***************************************************************************)

\* C26: chunk_text terminates for every non-empty text and every
\* chunk_size > overlap >= 0: every call returns its list of chunks.
C26_ChunkTextTerminates == <>(call.pc = "returned")

\* the loop at the end of the text with an overlap: the piece that ends at
\* len(text) was taken and start is still short of len(text)
C26_Witness ==
    /\ call.pc = "loop"
    /\ call.overlap > 0
    /\ call.start = Len(call.text) - call.overlap
    /\ result.chunks.pieces # <<>>

(***************************************************************************)
(* Properties of MultiIngestion.run, checked under SpecIngest.             *)
(***************************************************************************)

\* the collection holds the first chunk of every file of the folder that
\* has text
ChunksStored ==
    \A i \in 1..Len(call.folder) :
        ~ExtractFails(call.folder[i]) =>
            \E id \in DOMAIN result.collection :
                id[1] = call.folder[i].path /\ id[2] = 0

C27_ThresholdFromRequestAlone ==
    (/\ call.op \in {"post_query", "post_batch_query", "ws_query"}
     /\ (~call.request_threshold.present \/ call.request_threshold.value = Zero))
        => \A i \in 1..Len(call.evaluated) :
              call.evaluated[i] = RouteThreshold(call.op, call.request_threshold,
                                                 DefaultThreshold)

\* a batch with threshold 0 evaluated against the 0.9 of an earlier request
C27_Witness ==
    /\ call.op = "post_batch_query"
    /\ call.request_threshold = [present |-> TRUE, value |-> Zero]
    /\ call.evaluated = <<Q(9, 10)>>

(***************************************************************************)
(* Sessions and their statistics, checked under SpecMemoryAny.             *)
(***************************************************************************)

Quiet == \A t \in Threads : call.threads[t].pc = "idle"

\* C28: under any interleaving of concurrent add_turn calls on one session
\* id, two calls that both create the session included, no added turn is
\* lost except by trimming to max_turns: once all calls have returned (and
\* no sweep has run) the session holds as many turns as were added, up to
\* max_turns, and never more than max_turns.
C28_NoTurnLostByRace ==
    (Quiet /\ call.sweeps = 0 /\ result.added # {}) =>
        /\ ThreadSession \in DOMAIN conversations
        /\ Len(conversations[ThreadSession])
              = Min(Cardinality(result.added), max_turns)

\* two add_turn calls have returned, max_turns is 2 and the session holds
\* one turn
C28_Witness ==
    /\ Quiet
    /\ call.sweeps = 0
    /\ max_turns = 2
    /\ result.added = {"q1", "q2"}
    /\ Len(TurnsOf(conversations, ThreadSession)) = 1

\* C29: when cleanup_old runs concurrently with add_turn it never deletes a
\* session whose most recent turn is within max_age at the moment of the
\* deletion, and no sweep fails with KeyError on a session another sweep has
\* deleted.
C29_SweepDeletesOnlyExpired ==
    /\ [][\A sid \in DOMAIN conversations :
             (sid \notin DOMAIN conversations' /\ conversations[sid] # <<>>)
                => LastTurnTooOld(conversations[sid], now)]_vars
    /\ []([op |-> "cleanup_old", error |-> "KeyError"] \notin result.failed)

\* a sweep has just deleted the session to which another thread appended a
\* turn at the present time
C29_Witness ==
    /\ ThreadSession \notin DOMAIN conversations
    /\ \E t \in Threads : /\ call.threads[t].op = "add_turn"
                          /\ call.threads[t].pc = "len"
                          /\ call.threads[t].stamp = now
    /\ \E t \in Threads : /\ call.threads[t].op = "cleanup_old"
                          /\ call.threads[t].pc = "delete"
                          /\ call.threads[t].removed = 1

====
